---- MODULE Spec2Model ----
(***************************************************************************)
(* A model of the core of arc-content-report:                              *)
(*   - DateRangeBuilder (daterange_builder.py): recursive bisection of a   *)
(*     date range under a probe of the remote hit count;                   *)
(*   - the thread-pool executors of the parallel processors;               *)
(*   - RateLimiter (utils.py), shared by the worker threads;               *)
(*   - the asynchronous status check of redirect targets                   *)
(*     (status_checker.py);                                                *)
(*   - the paginated fetch of the date ranges;                             *)
(*   - the report pipeline (generate_report) and the CSV writers;          *)
(*   - the delete / expire scripts and their statistics;                   *)
(*   - the photo analysis (process_photos_analysis).                       *)
(* Each component has its own specification (SpecSplit, SpecExec,          *)
(* SpecRate, SpecCheck, SpecFetch, SpecReport, SpecDelete, SpecAnalysis);  *)
(* the variables of the other components stay at their initial value.      *)
(***************************************************************************)
EXTENDS Integers, Sequences, FiniteSets, TLC

(***************************************************************************)
(* Bounds of the model.                                                    *)
(***************************************************************************)
\* largest max_recursion_depth explored with an unconstrained probe
MaxDepth == 2
\* most items given to a parallel executor
MaxItems == 3
\* largest chunk_size
MaxChunkSize == 2
\* largest max_workers
MaxWorkers == 2
\* largest min_interval, in clock ticks
MaxInterval == 2
\* clock ticks explored after the RateLimiter is built
MaxTime == 4
\* most wait_if_needed calls made on one RateLimiter
MaxCalls == 3
\* most rows given to the status check
MaxRows == 3
\* largest batch_size of check_all_urls
MaxBatchSize == 2
\* largest max_concurrent of AsyncStatusChecker
MaxConcurrent == 2

(***************************************************************************)
(* Program constants.                                                      *)
(***************************************************************************)
\* DateRangeBuilder.__init__: self.max_records = 10000
max_records == 10000
\* DateRangeBuilder.__init__: self.max_recursion_depth = 10 (the default)
DEFAULT_MAX_RECURSION_DEPTH == 10
\* datetime/timedelta resolution: one second is 10^6 microseconds
MICROSECOND == 1000000
\* 2020-01-31T00:00:00 in seconds after 2020-01-01T00:00:00 (30 days)
JAN31 == 2592000

VARIABLES
    \* ---- DateRangeBuilder and its callers ----
    split_entry,          \* which entry point runs: "split_range",
                          \* "create_date_ranges_from_tuples", "generate_report"
    date_tuples,          \* the (start_date, end_date) tuples given to the entry point
    split_depth0,         \* the depth argument of a direct split_range call
    probe_mode,           \* "any": the remote answers anything;
                          \* "over": every count is above the ceiling
    max_recursion_depth,  \* self.max_recursion_depth
    idx,                  \* create_date_ranges_from_tuples: index of the next tuple
    pending,              \* split_range calls not yet executed, innermost first
    ranges,               \* ranges returned so far by the running split_range call
    optimized_ranges,     \* create_date_ranges_from_tuples: optimized_ranges
    probes,               \* log of get_total_hits calls
    root_calls,           \* ranges an entry point handed to split_range
    warnings,             \* indices of tuples logged as "Invalid date range"
    status,               \* "ready", "running", "returned", "raised", "idle"
    exc,                  \* the exception that escaped ("none" when none did)
    consolidated          \* generate_report: how many times each record of
                          \* the data set is in the rows fetched (<<>> before
                          \* the fetch)

splitVars == <<split_entry, date_tuples, split_depth0, probe_mode,
               max_recursion_depth, idx, pending, ranges, optimized_ranges,
               probes, root_calls, warnings, status, exc, consolidated>>

VARIABLES
    \* ---- the chunked thread-pool executors ----
    executor,             \* which one runs: "photos" (process_photos_parallel),
                          \* "redirects" (process_redirects_parallel),
                          \* "stories" (process_stories_parallel),
                          \* "ranges" (process_ranges_parallel)
    items,                \* the work items (photo_ids, redirect_items, story_items)
    chunk_size,
    max_workers,          \* self.max_workers
    chunk_start,          \* index of the first item of the current chunk
    future,               \* future[j]: state of the task submitted for items[j]
    outcome,              \* outcome[j]: what the unit call on items[j] did
    results,              \* the results list
    stats,                \* self.stats of the delete processors
    exec_pc               \* "ready", "collecting", "returned", "raised", "idle"

execVars == <<executor, items, chunk_size, max_workers, chunk_start, future,
              outcome, results, stats, exec_pc>>

VARIABLES
    \* ---- RateLimiter and the threads that call wait_if_needed ----
    rl_threads,           \* the threads that share the RateLimiter
    min_interval,         \* self.min_interval = 1.0 / max_requests_per_second,
                          \* in clock ticks
    now,                  \* what time.time() returns
    last_request_time,    \* self.last_request_time
    rl_pc,                \* rl_pc[t]: "idle", "called", "sleeping", "awake"
    current_time,         \* current_time[t]: the local of wait_if_needed
    wake,                 \* wake[t]: when the time.sleep of thread t ends
    slept,                \* slept[t]: the running call of t went to sleep
    rl_calls,             \* number of wait_if_needed calls made so far
    rl_returns            \* the two latest returns, oldest first: time of
                          \* the call, time of the return, whether it slept

rateVars == <<rl_threads, min_interval, now, last_request_time, rl_pc,
              current_time, wake, slept, rl_calls, rl_returns>>

VARIABLES
    \* ---- check_redirect_statuses_async and AsyncStatusChecker ----
    data,                 \* the rows given to check_redirect_statuses_async
    batch_size,           \* batch_size of check_all_urls
    max_concurrent,       \* self.max_concurrent
    urls,                 \* the urls given to check_all_urls
    unique_urls,          \* check_all_urls: unique_urls
    batch_start,          \* index in unique_urls of the first url of the batch
    task,                 \* task[k]: state of the check of unique_urls[k]
    get_outcome,          \* get_outcome[k]: what session.get did for it
    issued,               \* log of the GET requests issued, in order
    all_results,          \* check_all_urls: all_results
    status_dict,          \* the map returned by check_all_urls
    updated_data,         \* what check_redirect_statuses_async returns
    check_pc              \* "ready", "checking", "checked", "returned",
                          \* "raised", "idle"

checkVars == <<data, batch_size, max_concurrent, urls, unique_urls,
               batch_start, task, get_outcome, issued, all_results,
               status_dict, updated_data, check_pc>>

VARIABLES
    \* ---- process_ranges_parallel and the paginated fetch of one range ----
    fetch_ranges,         \* the date ranges given to process_ranges_parallel
    from_next,            \* from_next[r]: the offset cursor of the fetch of r
    all_items,            \* all_items[r]: number of rows appended so far
    requests,             \* requests[r]: the "from" of the requests, in order
    outstanding,          \* outstanding[r]: requests sent and not yet answered
    page_failed,          \* page_failed[r]: the except branch of the loop ran
    fetch_pc,             \* fetch_pc[r]: "unsubmitted", "queued", "loop",
                          \* "awaiting", "returned"
    range_outcome,        \* range_outcome[r]: what process_ranges_parallel
                          \* made of the future: "none", "completed", "error"
    fetch_results,        \* process_ranges_parallel: len(all_results)
    completed_count,      \* process_ranges_parallel: completed_count
    period_requests,      \* page requests let through since the current
                          \* limiter period began, all workers together
    fp_pc                 \* "ready", "submitted", "done", "idle"

fetchVars == <<fetch_ranges, from_next, all_items, requests, outstanding,
               page_failed, fetch_pc, range_outcome, fetch_results,
               completed_count, period_requests, fp_pc>>

VARIABLES
    \* ---- OptimizedRedirectReporter.generate_report and the CSV writers ----
    report_entry,         \* which entry point runs: "generate_report",
                          \* "export_to_csv", "write_csv_files"
    report_start,         \* start_date given to generate_report
    report_end,           \* end_date given to generate_report
    do_404_or_200,        \* self.do_404_or_200
    website_domain,       \* self.website_domain
    auto_optimize_workers,\* self.auto_optimize_workers
    splitter_calls,       \* calls of DateRangeBuilder.build_optimal_ranges
    report_ranges,        \* generate_report: len(date_ranges)
    fetch_calls,          \* ranges fetched by the run's process_ranges_parallel
    benchmark_fetches,    \* ranges fetched by optimize_worker_count
    report_data,          \* generate_report: len(data)
    stage_log,            \* the stages that have started, in order
    report_raised,        \* the stage whose exception left generate_report,
                          \* or "none"
    output_file,          \* the path returned by the export
    images_list,          \* len(self.images_list) of write_csv_files
    images_preserved,     \* len(self.images_preserved) of write_csv_files
    file_idx,             \* write_csv_files: index of the next file name
    disk0,                \* the files on disk before the run: name -> size
    disk,                 \* the files on disk: name -> size
    report_pc             \* "ready", "built", "fetched", "checked",
                          \* "exported", "writing", "returned", "raised",
                          \* "idle"

reportVars == <<report_entry, report_start, report_end, do_404_or_200,
                website_domain, auto_optimize_workers, splitter_calls,
                report_ranges, fetch_calls, benchmark_fetches, report_data,
                stage_log, report_raised, output_file, images_list,
                images_preserved, file_idx, disk0, disk, report_pc>>

VARIABLES
    \* ---- the delete / expire scripts and their unit functions ----
    unit_func,            \* the unit function the batch runs
    del_entry,            \* "script": the script's batch method is called;
                          \* "processor": process_redirects_parallel or
                          \* process_stories_parallel is called directly
    invocation,           \* how many times the processor was invoked
    del_dry_run,          \* self.dry_run
    del_max_workers,      \* self.max_workers
    csv_ids,              \* the ids read from the input CSV
    preserved_csv,        \* the corresponding preserved CSV: whether it
                          \* exists, and its ids
    del_items,            \* the items given to the parallel processor
    invoked,              \* the items the unit function was called with
    del_future,           \* del_future[i]: "unsubmitted", "queued",
                          \* "running", "finished", "collected"
    del_ops,              \* del_ops[i]: what the unit call has still to do
    loaded,               \* loaded[i]: the counter value read by the
                          \* increment under way, or -1
    del_remote,           \* del_remote[i]: what the remote does to the
                          \* requests of unit call i
    del_requests,         \* del_requests[i]: the HTTP methods issued
    del_result,           \* del_result[i]: what the unit call returned
    del_results,          \* results of the parallel processor: how many
                          \* of each, whatever their order
    del_stats,            \* self.stats of the script object
    proc_stats,           \* self.stats of the parallel processor
    del_pc                \* "ready", "processing", "returned",
                          \* "processor_returned", "idle"

deleteVars == <<unit_func, del_entry, invocation, del_dry_run,
                del_max_workers, csv_ids, preserved_csv, del_items, invoked,
                del_future, del_ops, loaded, del_remote, del_requests,
                del_result, del_results, del_stats, proc_stats, del_pc>>

VARIABLES
    \* ---- CombinedPhotoAnalysis.process_photos_analysis ----
    an_ids,               \* the photo ids found by query_photos
    self_images_list,     \* self.images_list: the photos to delete
    self_images_preserved,\* self.images_preserved
    an_step,              \* the check that runs: "references", "fulltext",
                          \* "lightbox"
    an_checked,           \* the photos whose check of this step is over
    an_results,           \* results of the running process_photos_parallel
    check_log,            \* the checks made: <<step, photo id>>
    an_stats,             \* self.stats
    an_pc                 \* "ready", "checking", "finishing", "returned",
                          \* "idle"

analysisVars == <<an_ids, self_images_list, self_images_preserved, an_step,
                  an_checked, an_results, check_log, an_stats, an_pc>>

vars == <<splitVars, execVars, rateVars, checkVars, fetchVars, reportVars,
          deleteVars, analysisVars>>

(***************************************************************************)
(* Date strings.  A string is modelled by its shape (kind) and the instant *)
(* it denotes: s whole seconds after 2020-01-01T00:00:00 and u             *)
(* microseconds.  Two strings are equal iff kind, s and u are equal.       *)
(*   "date"  YYYY-MM-DD                 "secs"  YYYY-MM-DDTHH:MM:SS         *)
(*   "frac"  YYYY-MM-DDTHH:MM:SS.ffffff "zulu"  YYYY-MM-DDTHH:MM:SSZ        *)
(*   "bad"   not an ISO date ("invalid-date")      "empty"  ""             *)
(***************************************************************************)
DateStr(kind, s, u) == [kind |-> kind, s |-> s, u |-> u]

BAD_DATE == DateStr("bad", 0, 0)
EMPTY_STR == DateStr("empty", 0, 0)

\* datetime.fromisoformat(x.replace('Z', '+00:00')): a naive or aware datetime,
\* or ValueError
fromisoformat(str) ==
    IF str.kind \in {"bad", "empty"}
    THEN [err |-> "ValueError", s |-> 0, u |-> 0, aware |-> FALSE]
    ELSE [err |-> "none", s |-> str.s, u |-> str.u, aware |-> (str.kind = "zulu")]

\* datetime.strftime("%Y-%m-%dT%H:%M:%S"): the microseconds and the zone are
\* not written
strftime(dt) == DateStr("secs", dt.s, 0)

\* mutant of HalfTimedelta: the division by 2 is forgotten
HalfTimedeltaUndivided(td) == td

\* timedelta / 2 (true division): the quotient in microseconds, ties to even.
\* td = <<seconds, microseconds>> with 0 <= microseconds < 10^6.
HalfTimedelta(td) ==
    LET r == (td[1] % 2) * MICROSECOND + td[2]
        k == r \div 2
        h == IF r % 2 = 0 THEN k ELSE IF k % 2 = 0 THEN k ELSE k + 1
    IN  <<td[1] \div 2, h>>

\* end_dt - start_dt, normalised as timedelta does
Timedelta(start_dt, end_dt) ==
    LET ds == end_dt.s - start_dt.s
        du == end_dt.u - start_dt.u
    IN  IF du < 0 THEN <<ds - 1, du + MICROSECOND>> ELSE <<ds, du>>

\* start_dt + td
AddTimedelta(start_dt, td) ==
    LET mu == start_dt.u + td[2]
    IN  [err |-> "none", s |-> start_dt.s + td[1] + (mu \div MICROSECOND),
         u |-> mu % MICROSECOND, aware |-> start_dt.aware]

\* split_range lines 87-95: parse both ends, midpoint = start_dt + (end_dt -
\* start_dt) / 2, formatted for the API.  err is the exception raised.
Midpoint(start_date, end_date) ==
    LET start_dt == fromisoformat(start_date)
        end_dt == fromisoformat(end_date)
    IN  IF start_dt.err # "none" THEN [err |-> start_dt.err, str |-> BAD_DATE]
        ELSE IF end_dt.err # "none" THEN [err |-> end_dt.err, str |-> BAD_DATE]
        ELSE IF start_dt.aware # end_dt.aware
             THEN [err |-> "TypeError", str |-> BAD_DATE]
        ELSE [err |-> "none",
              str |-> strftime(AddTimedelta(start_dt,
                          HalfTimedelta(Timedelta(start_dt, end_dt))))]

\* mutant of validate_date_range: start_dt <= end_dt instead of <
validate_date_range_inclusive(start_date, end_date) ==
    LET start_dt == fromisoformat(start_date)
        end_dt == fromisoformat(end_date)
    IN  IF start_dt.err # "none" \/ end_dt.err # "none" THEN "false"
        ELSE IF start_dt.aware # end_dt.aware THEN "TypeError"
        ELSE IF start_dt.s < end_dt.s
                \/ (start_dt.s = end_dt.s /\ start_dt.u <= end_dt.u)
             THEN "true" ELSE "false"

\* validate_date_range: "true", "false", or "TypeError" when a naive and an
\* aware datetime are compared (only ValueError is caught)
validate_date_range(start_date, end_date) ==
    LET start_dt == fromisoformat(start_date)
        end_dt == fromisoformat(end_date)
    IN  IF start_dt.err # "none" \/ end_dt.err # "none" THEN "false"
        ELSE IF start_dt.aware # end_dt.aware THEN "TypeError"
        ELSE IF start_dt.s < end_dt.s
                \/ (start_dt.s = end_dt.s /\ start_dt.u < end_dt.u)
             THEN "true" ELSE "false"

(***************************************************************************)
(* The probe.  A response of the search API to the count query: the        *)
(* request raised a RequestException (exc), or it carries a count.         *)
(***************************************************************************)
Response(e, c) == [exc |-> e, count |-> c]

Responses(mode) ==
    IF mode = "over" THEN {Response(FALSE, max_records + 1)}
    ELSE {Response(TRUE, 0), Response(FALSE, max_records),
          Response(FALSE, max_records + 1)}

\* mutant of get_total_hits: a failed request counts as over the ceiling
get_total_hits_fail_closed(resp) ==
    IF resp.exc THEN max_records + 1 ELSE resp.count

\* get_total_hits lines 48-55: the count, 0 when the request failed
get_total_hits(resp) == IF resp.exc THEN 0 ELSE resp.count

\* mutant of DepthExhausted: depth > max_recursion_depth
DepthExhaustedOffByOne(depth) == depth > max_recursion_depth

\* split_range line 69
DepthExhausted(depth) == depth >= max_recursion_depth

\* mutant of WithinLimits: total_hits < max_records
WithinLimitsStrict(total_hits) == total_hits < max_records

\* split_range line 80
WithinLimits(total_hits) == total_hits <= max_records

Call(start_date, end_date, depth) ==
    [start |-> start_date, end |-> end_date, depth |-> depth]

\* mutant of Halves: second_half + first_half
HalvesSecondFirst(start_date, midpoint_str, end_date, depth) ==
    <<[start |-> midpoint_str, end |-> end_date, depth |-> depth + 1],
      [start |-> start_date, end |-> midpoint_str, depth |-> depth + 1]>>

\* split_range lines 98-101: the two recursive calls, in the order they run;
\* first_half + second_half is the order their ranges are returned in
Halves(start_date, midpoint_str, end_date, depth) ==
    <<Call(start_date, midpoint_str, depth + 1),
      Call(midpoint_str, end_date, depth + 1)>>

(***************************************************************************)
(* Inputs.                                                                 *)
(***************************************************************************)
ValidRanges ==
    { <<DateStr("secs", 0, 0), DateStr("secs", JAN31, 0)>>,
      <<DateStr("date", 0, 0), DateStr("date", JAN31, 0)>>,
      <<DateStr("secs", 0, 0), DateStr("secs", 1, 0)>>,
      <<DateStr("secs", 0, 0), DateStr("secs", 3, 0)>>,
      <<DateStr("frac", 0, 600000), DateStr("frac", 0, 900000)>>,
      <<DateStr("frac", 0, 1), DateStr("frac", 1, 999998)>>,
      <<DateStr("zulu", 0, 0), DateStr("zulu", JAN31, 0)>> }

InvalidRanges ==
    { <<DateStr("secs", JAN31, 0), DateStr("secs", 0, 0)>>,
      <<DateStr("secs", 0, 0), DateStr("secs", 0, 0)>>,
      <<BAD_DATE, DateStr("date", JAN31, 0)>>,
      <<DateStr("zulu", 0, 0), DateStr("secs", JAN31, 0)>>,
      <<EMPTY_STR, EMPTY_STR>>,
      <<DateStr("secs", 0, 0), EMPTY_STR>> }

InputRanges == ValidRanges \cup InvalidRanges

\* the lists given to create_date_ranges_from_tuples
TupleLists ==
    {<<>>} \cup { <<r>> : r \in InputRanges }
    \cup { <<r, <<DateStr("secs", 0, 0), DateStr("secs", 3, 0)>>>> :
             r \in InvalidRanges }
    \cup { <<<<DateStr("secs", 0, 0), DateStr("secs", 3, 0)>>, r>> :
             r \in InvalidRanges }

\* the executors when the specification is about another component
ExecIdle ==
    /\ executor = "none" /\ items = <<>> /\ chunk_size = 1 /\ max_workers = 1
    /\ chunk_start = 1 /\ future = <<>> /\ outcome = <<>> /\ results = <<>>
    /\ stats = [total |-> 0, deleted |-> 0, failed |-> 0]
    /\ exec_pc = "idle"

\* the RateLimiter when the specification is about another component
RateIdle ==
    /\ rl_threads = {} /\ min_interval = 1 /\ now = 1
    /\ last_request_time = 0 /\ rl_pc = <<>> /\ current_time = <<>>
    /\ wake = <<>> /\ slept = <<>> /\ rl_calls = 0 /\ rl_returns = <<>>

\* the status check when the specification is about another component
CheckIdle ==
    /\ data = <<>> /\ batch_size = 1 /\ max_concurrent = 1 /\ urls = <<>>
    /\ unique_urls = <<>> /\ batch_start = 1 /\ task = <<>>
    /\ get_outcome = <<>> /\ issued = <<>> /\ all_results = <<>>
    /\ status_dict = <<>> /\ updated_data = <<>> /\ check_pc = "idle"

\* the range fetch when the specification is about another component
FetchIdle ==
    /\ fetch_ranges = <<>> /\ from_next = <<>> /\ all_items = <<>>
    /\ requests = <<>> /\ outstanding = <<>> /\ page_failed = <<>>
    /\ fetch_pc = <<>> /\ range_outcome = <<>> /\ fetch_results = 0
    /\ completed_count = 0 /\ period_requests = 0 /\ fp_pc = "idle"

\* the report pipeline when the specification is about another component
ReportIdle ==
    /\ report_entry = "none" /\ report_start = "" /\ report_end = ""
    /\ do_404_or_200 = FALSE /\ website_domain = ""
    /\ auto_optimize_workers = FALSE /\ splitter_calls = 0
    /\ report_ranges = 0 /\ fetch_calls = 0 /\ benchmark_fetches = 0
    /\ report_data = 0 /\ stage_log = <<>> /\ report_raised = "none"
    /\ output_file = "" /\ images_list = 0 /\ images_preserved = 0
    /\ file_idx = 1 /\ disk0 = <<>> /\ disk = <<>> /\ report_pc = "idle"

\* the delete scripts when the specification is about another component
DeleteIdle ==
    /\ unit_func = "none" /\ del_dry_run = FALSE /\ del_max_workers = 1
    /\ del_entry = "none" /\ invocation = 0 /\ del_remote = <<>>
    /\ csv_ids = <<>> /\ preserved_csv = [exists |-> FALSE, ids |-> {}]
    /\ del_items = <<>>
    /\ invoked = {} /\ del_future = <<>> /\ del_ops = <<>> /\ loaded = <<>>
    /\ del_requests = <<>> /\ del_result = <<>> /\ del_results = <<>>
    /\ del_stats = <<>> /\ proc_stats = <<>> /\ del_pc = "idle"

\* the photo analysis when the specification is about another component
AnalysisIdle ==
    /\ an_ids = <<>> /\ self_images_list = <<>>
    /\ self_images_preserved = <<>> /\ an_step = "none" /\ an_checked = {}
    /\ an_results = <<>> /\ check_log = {} /\ an_stats = <<>>
    /\ an_pc = "idle"

SplitIdle ==
    /\ split_entry = "none" /\ date_tuples = <<>> /\ split_depth0 = 0
    /\ probe_mode = "any" /\ max_recursion_depth = DEFAULT_MAX_RECURSION_DEPTH
    /\ idx = 1 /\ pending = <<>> /\ ranges = <<>> /\ optimized_ranges = <<>>
    /\ probes = <<>> /\ root_calls = <<>> /\ warnings = <<>>
    /\ status = "idle" /\ exc = "none" /\ consolidated = <<>>

SplitInit ==
    /\ ExecIdle /\ RateIdle /\ CheckIdle /\ FetchIdle /\ ReportIdle
    /\ DeleteIdle /\ AnalysisIdle
    /\ \/ /\ split_entry = "split_range"
          /\ date_tuples \in { <<r>> : r \in InputRanges }
          /\ max_recursion_depth \in 0..MaxDepth
          /\ split_depth0 \in 0..(max_recursion_depth + 1)
          /\ probe_mode = "any"
       \/ /\ split_entry = "split_range"
          /\ date_tuples \in { <<r>> : r \in ValidRanges }
          /\ max_recursion_depth = DEFAULT_MAX_RECURSION_DEPTH
          /\ split_depth0 = 0
          /\ probe_mode = "over"
       \/ /\ split_entry = "create_date_ranges_from_tuples"
          /\ date_tuples \in TupleLists
          /\ max_recursion_depth \in 0..MaxDepth
          /\ split_depth0 = 0
          /\ probe_mode = "any"
       \/ /\ split_entry = "generate_report"
          /\ date_tuples \in { <<r>> : r \in InputRanges }
          /\ max_recursion_depth \in 0..MaxDepth
          /\ split_depth0 = 0
          /\ probe_mode = "any"
    /\ idx = 1
    /\ pending = <<>>
    /\ ranges = <<>>
    /\ optimized_ranges = <<>>
    /\ probes = <<>>
    /\ root_calls = <<>>
    /\ warnings = <<>>
    /\ status = "ready"
    /\ exc = "none"
    /\ consolidated = <<>>

(***************************************************************************)
(* Entry points.                                                           *)
(***************************************************************************)
\* a direct call split_range(start_date, end_date, depth)
CallSplitRange ==
    /\ split_entry = "split_range" /\ status = "ready"
    /\ pending' = <<Call(date_tuples[1][1], date_tuples[1][2], split_depth0)>>
    /\ root_calls' = Append(root_calls, date_tuples[1])
    /\ status' = "running"
    /\ UNCHANGED <<split_entry, date_tuples, split_depth0, probe_mode,
                   max_recursion_depth, idx, ranges, optimized_ranges, probes,
                   warnings, exc>>
    /\ UNCHANGED consolidated
    /\ UNCHANGED <<execVars, rateVars, checkVars, fetchVars, reportVars,
                   deleteVars, analysisVars>>

\* identify_redirects.py build_optimal_date_ranges, called by generate_report:
\* an empty start or end bypasses the splitter, anything else is split
BuildOptimalDateRanges ==
    /\ split_entry = "generate_report" /\ status = "ready"
    /\ LET start_date == date_tuples[1][1]
           end_date == date_tuples[1][2]
       IN  IF start_date = EMPTY_STR \/ end_date = EMPTY_STR
           THEN /\ status' = "returned"
                /\ UNCHANGED <<pending, root_calls>>
           ELSE /\ pending' = <<Call(start_date, end_date, 0)>>
                /\ root_calls' = Append(root_calls, date_tuples[1])
                /\ status' = "running"
    /\ UNCHANGED <<split_entry, date_tuples, split_depth0, probe_mode,
                   max_recursion_depth, idx, ranges, optimized_ranges, probes,
                   warnings, exc>>
    /\ UNCHANGED consolidated
    /\ UNCHANGED <<execVars, rateVars, checkVars, fetchVars, reportVars,
                   deleteVars, analysisVars>>

\* create_date_ranges_from_tuples lines 154-159: one iteration of the loop, up
\* to the call of build_optimal_ranges
CreateDateRangesLoop ==
    /\ split_entry = "create_date_ranges_from_tuples"
    /\ status \in {"ready", "running"} /\ pending = <<>>
    /\ idx <= Len(date_tuples)
    /\ LET start_date == date_tuples[idx][1]
           end_date == date_tuples[idx][2]
           valid == validate_date_range(start_date, end_date)
       IN  CASE valid = "true" ->
                  /\ pending' = <<Call(start_date, end_date, 0)>>
                  /\ root_calls' = Append(root_calls, date_tuples[idx])
                  /\ ranges' = <<>>
                  /\ status' = "running"
                  /\ UNCHANGED <<idx, warnings, exc>>
             [] valid = "false" ->
                  /\ warnings' = Append(warnings, idx)
                  /\ idx' = idx + 1
                  /\ status' = "running"
                  /\ UNCHANGED <<pending, root_calls, ranges, exc>>
             [] OTHER ->
                  /\ status' = "raised"
                  /\ exc' = valid
                  /\ UNCHANGED <<pending, root_calls, ranges, idx, warnings>>
    /\ UNCHANGED <<split_entry, date_tuples, split_depth0, probe_mode,
                   max_recursion_depth, optimized_ranges, probes>>
    /\ UNCHANGED consolidated
    /\ UNCHANGED <<execVars, rateVars, checkVars, fetchVars, reportVars,
                   deleteVars, analysisVars>>

\* create_date_ranges_from_tuples line 161: return optimized_ranges
CreateDateRangesReturn ==
    /\ split_entry = "create_date_ranges_from_tuples"
    /\ status \in {"ready", "running"} /\ pending = <<>>
    /\ idx > Len(date_tuples)
    /\ status' = "returned"
    /\ UNCHANGED <<split_entry, date_tuples, split_depth0, probe_mode,
                   max_recursion_depth, idx, pending, ranges, optimized_ranges,
                   probes, root_calls, warnings, exc>>
    /\ UNCHANGED consolidated
    /\ UNCHANGED <<execVars, rateVars, checkVars, fetchVars, reportVars,
                   deleteVars, analysisVars>>

(***************************************************************************)
(* split_range.  One step runs the body of the innermost pending call: the *)
(* depth check, the probe, and either the return of the range or the       *)
(* midpoint and the two recursive calls.  When the last pending call has   *)
(* returned, the outermost split_range returns to the entry point.         *)
(***************************************************************************)
\* the outermost split_range call returns rs to its caller
ReturnToCaller(rs) ==
    IF split_entry = "create_date_ranges_from_tuples"
    THEN /\ optimized_ranges' = optimized_ranges \o rs
         /\ idx' = idx + 1
         /\ UNCHANGED status
    ELSE /\ status' = "returned"
         /\ UNCHANGED <<optimized_ranges, idx>>

\* return [(start_date, end_date)]
ReturnRange(call, rest) ==
    LET rs == Append(ranges, <<call.start, call.end>>)
    IN  /\ ranges' = rs
        /\ pending' = rest
        /\ IF rest = <<>> THEN ReturnToCaller(rs)
           ELSE UNCHANGED <<optimized_ranges, idx, status>>
        /\ UNCHANGED exc

SplitRangeStep ==
    /\ status = "running" /\ pending # <<>>
    /\ LET call == Head(pending)
           rest == Tail(pending)
       IN  IF DepthExhausted(call.depth)
           THEN ReturnRange(call, rest) /\ UNCHANGED probes
           ELSE \E resp \in Responses(probe_mode) :
                  LET total_hits == get_total_hits(resp)
                      m == Midpoint(call.start, call.end)
                  IN  /\ probes' = Append(probes,
                            [start |-> call.start, end |-> call.end,
                             depth |-> call.depth, failed |-> resp.exc,
                             hits |-> total_hits])
                      /\ IF WithinLimits(total_hits)
                         THEN ReturnRange(call, rest)
                         ELSE IF m.err # "none"
                         THEN /\ status' = "raised"
                              /\ exc' = m.err
                              /\ UNCHANGED <<pending, ranges, optimized_ranges,
                                             idx>>
                         ELSE /\ pending' = Halves(call.start, m.str, call.end,
                                                   call.depth) \o rest
                              /\ UNCHANGED <<ranges, optimized_ranges, idx,
                                             status, exc>>
    /\ UNCHANGED <<split_entry, date_tuples, split_depth0, probe_mode,
                   max_recursion_depth, root_calls, warnings>>
    /\ UNCHANGED consolidated
    /\ UNCHANGED <<execVars, rateVars, checkVars, fetchVars, reportVars,
                   deleteVars, analysisVars>>

\* fetch_redirects_for_range line 49: the query "created_date:[start TO end]"
\* selects the records from start to end, both ends included
InQuery(rec, start_date, end_date) ==
    LET start_dt == fromisoformat(start_date)
        end_dt == fromisoformat(end_date)
    IN  /\ start_dt.err = "none" /\ end_dt.err = "none"
        /\ (start_dt.s < rec.s \/ (start_dt.s = rec.s /\ start_dt.u <= rec.u))
        /\ (rec.s < end_dt.s \/ (rec.s = end_dt.s /\ rec.u <= end_dt.u))

\* the created_date of the records of the remote data set
DataSet ==
    { [s |-> 0, u |-> 0], [s |-> 0, u |-> 750000], [s |-> 1, u |-> 0],
      [s |-> 2, u |-> 0], [s |-> 3, u |-> 0], [s |-> JAN31 \div 2, u |-> 0],
      [s |-> JAN31, u |-> 0] }

\* the range was returned because its probe succeeded with a count within
\* the ceiling
ProbedWithinLimits(r) ==
    \E k \in 1..Len(probes) :
        /\ probes[k].start = r[1] /\ probes[k].end = r[2]
        /\ ~probes[k].failed /\ probes[k].hits <= max_records

\* generate_report lines 134-141 with process_date_ranges and
\* process_ranges_parallel lines 114-136: the ranges of the splitter are
\* fetched and the rows of every range are appended to all_results.  The
\* fetch is taken when every range is within the ceiling and every request
\* succeeds: a range then brings each of its hits once.
FetchEmittedRanges ==
    /\ split_entry = "generate_report" /\ status = "returned"
    /\ consolidated = <<>>
    /\ \A i \in 1..Len(ranges) : ProbedWithinLimits(ranges[i])
    /\ consolidated' =
           [rec \in DataSet |->
               Cardinality({ i \in 1..Len(ranges) :
                               InQuery(rec, ranges[i][1], ranges[i][2]) })]
    /\ UNCHANGED <<split_entry, date_tuples, split_depth0, probe_mode,
                   max_recursion_depth, idx, pending, ranges, optimized_ranges,
                   probes, root_calls, warnings, status, exc>>
    /\ UNCHANGED <<execVars, rateVars, checkVars, fetchVars, reportVars,
                   deleteVars, analysisVars>>

NextSplit ==
    \/ FetchEmittedRanges
    \/ CallSplitRange
    \/ BuildOptimalDateRanges
    \/ CreateDateRangesLoop
    \/ CreateDateRangesReturn
    \/ SplitRangeStep

SpecSplit == SplitInit /\ [][NextSplit]_vars

(***************************************************************************)
(* The chunked executors: process_photos_parallel (images),                *)
(* process_redirects_parallel and process_stories_parallel (deletions).    *)
(* The main thread takes the items chunk by chunk; for each chunk it       *)
(* opens a ThreadPoolExecutor(max_workers), submits one task per item and  *)
(* handles the futures as they complete.  A pool thread takes the oldest   *)
(* queued task.  process_ranges_parallel (redirect search) opens a single  *)
(* pool for all its date ranges: it is the same loop with one chunk that   *)
(* holds every item, and its unit call returns a list of rows (here: one   *)
(* row, or none).                                                          *)
(***************************************************************************)
\* what a unit call does: it returns a result with that status, returns
\* None, or raises
ResultStatuses == {"deleted", "failed", "error"}
UnitOutcomes == ResultStatuses \cup {"none", "raise"}

Min(a, b) == IF a <= b THEN a ELSE b

\* mutant of Chunk: items[i:i + chunk_size + 1], chunks overlap by one item
ChunkOverlapping(i) == i..Min(i + chunk_size, Len(items))

\* chunk = items[i:i + chunk_size], as the set of its indices
Chunk(i) == i..Min(i + chunk_size - 1, Len(items))

\* executor.submit for every item of the chunk that starts at i
SubmitChunk(i) ==
    future' = [j \in 1..Len(items) |->
                 IF j \in Chunk(i) THEN "queued" ELSE future[j]]

Running == { j \in 1..Len(items) : future[j] = "running" }
Queued == { j \in 1..Len(items) : future[j] = "queued" }

Result(item, st, raised) == [item |-> item, status |-> st, raised |-> raised]

Effect(app, d, f, esc) ==
    [append |-> app, deleted |-> d, failed |-> f, escaped |-> esc]

\* the executors that keep no counters and only log a raising item
LogsOnly(kind) == kind \in {"photos", "ranges"}

\* mutant of HandleFuture: the delete executors only log a raising item, as
\* the image executor does
HandleFutureLogsOnly(kind, item, o) ==
    CASE o = "deleted" ->
             Effect(<<Result(item, o, FALSE)>>,
                    IF LogsOnly(kind) THEN 0 ELSE 1, 0, FALSE)
      [] o \in {"failed", "error"} ->
             Effect(<<Result(item, o, FALSE)>>, 0,
                    IF LogsOnly(kind) THEN 0 ELSE 1, FALSE)
      [] OTHER -> Effect(<<>>, 0, 0, FALSE)

\* mutant of HandleFuture: the image executor appends an error-tagged result
\* for a raising item, as the delete executors do
HandleFutureTagsErrors(kind, item, o) ==
    CASE o = "deleted" ->
             Effect(<<Result(item, o, FALSE)>>,
                    IF LogsOnly(kind) THEN 0 ELSE 1, 0, FALSE)
      [] o \in {"failed", "error"} ->
             Effect(<<Result(item, o, FALSE)>>, 0,
                    IF LogsOnly(kind) THEN 0 ELSE 1, FALSE)
      [] o = "none" -> Effect(<<>>, 0, 0, FALSE)
      [] OTHER -> Effect(<<Result(item, "error", TRUE)>>, 0,
                         IF LogsOnly(kind) THEN 0 ELSE 1, FALSE)

\* mutant of HandleFuture: future.result() outside any try/except
HandleFutureUnguarded(kind, item, o) ==
    CASE o \in ResultStatuses -> Effect(<<Result(item, o, FALSE)>>, 0, 0, FALSE)
      [] o = "none" -> Effect(<<>>, 0, 0, FALSE)
      [] OTHER -> Effect(<<>>, 0, 0, TRUE)

\* the body of `for future in as_completed(...)` for the future of `item`
\* whose unit call did o: what is appended to results, the increments of the
\* deleted and failed counters, and whether an exception leaves the loop
HandleFuture(kind, item, o) ==
    IF LogsOnly(kind)
    THEN \* parallel_processor.py lines 59-65,
         \* identify_redirects_parallel_processor.py lines 127-133
         IF o \in ResultStatuses
         THEN Effect(<<Result(item, o, FALSE)>>, 0, 0, FALSE)
         ELSE Effect(<<>>, 0, 0, FALSE)
    ELSE \* delete_*_parallel_processor.py lines 81-99
         CASE o = "deleted" -> Effect(<<Result(item, o, FALSE)>>, 1, 0, FALSE)
           [] o \in {"failed", "error"} ->
                  Effect(<<Result(item, o, FALSE)>>, 0, 1, FALSE)
           [] o = "none" -> Effect(<<>>, 0, 0, FALSE)
           [] OTHER -> Effect(<<Result(item, "error", TRUE)>>, 0, 1, FALSE)

ExecInit ==
    /\ SplitIdle /\ RateIdle /\ CheckIdle /\ FetchIdle /\ ReportIdle
    /\ DeleteIdle /\ AnalysisIdle
    /\ executor \in {"photos", "redirects", "stories", "ranges"}
    /\ \E n \in 0..MaxItems :
          /\ items = [j \in 1..n |-> j]
          /\ future = [j \in 1..n |-> "unsubmitted"]
          /\ outcome = [j \in 1..n |-> "pending"]
    /\ IF executor = "ranges"
       THEN chunk_size = Len(items) + 1   \* one pool for all the ranges
       ELSE chunk_size \in 1..MaxChunkSize
    /\ max_workers \in 1..MaxWorkers
    /\ chunk_start = 1
    /\ results = <<>>
    /\ stats = [total |-> 0, deleted |-> 0, failed |-> 0]
    /\ exec_pc = "ready"

\* the call of process_*_parallel up to the first wait: results = [], the
\* total is recorded, the first chunk (if any) is submitted
ProcessParallelCall ==
    /\ exec_pc = "ready"
    /\ results' = <<>>
    /\ stats' = IF LogsOnly(executor) THEN stats
                ELSE [stats EXCEPT !.total = Len(items)]
    /\ chunk_start' = 1
    /\ IF Len(items) = 0
       THEN exec_pc' = "returned" /\ UNCHANGED future
       ELSE exec_pc' = "collecting" /\ SubmitChunk(1)
    /\ UNCHANGED <<executor, items, chunk_size, max_workers, outcome>>
    /\ UNCHANGED <<splitVars, rateVars, checkVars, fetchVars, reportVars,
                   deleteVars, analysisVars>>

\* mutant of WorkerStart: a thread is started for every queued task, whatever
\* the number of unit calls that are running
WorkerStartUnbounded ==
    /\ exec_pc = "collecting"
    /\ Queued # {}
    /\ LET j == CHOOSE q \in Queued : \A r \in Queued : q <= r
       IN  future' = [future EXCEPT ![j] = "running"]
    /\ UNCHANGED <<executor, items, chunk_size, max_workers, chunk_start,
                   outcome, results, stats, exec_pc>>
    /\ UNCHANGED <<splitVars, rateVars, checkVars, fetchVars, reportVars,
                   deleteVars, analysisVars>>

\* a pool thread takes the oldest queued task and starts the unit call
WorkerStart ==
    /\ exec_pc = "collecting"
    /\ Queued # {}
    /\ Cardinality(Running) < max_workers
    /\ LET j == CHOOSE q \in Queued : \A r \in Queued : q <= r
       IN  future' = [future EXCEPT ![j] = "running"]
    /\ UNCHANGED <<executor, items, chunk_size, max_workers, chunk_start,
                   outcome, results, stats, exec_pc>>
    /\ UNCHANGED <<splitVars, rateVars, checkVars, fetchVars, reportVars,
                   deleteVars, analysisVars>>

\* a unit call ends: it returned a result, returned None, or raised
WorkerFinish ==
    /\ exec_pc = "collecting"
    /\ \E j \in Running : \E o \in UnitOutcomes :
          /\ future' = [future EXCEPT ![j] = "finished"]
          /\ outcome' = [outcome EXCEPT ![j] = o]
    /\ UNCHANGED <<executor, items, chunk_size, max_workers, chunk_start,
                   results, stats, exec_pc>>
    /\ UNCHANGED <<splitVars, rateVars, checkVars, fetchVars, reportVars,
                   deleteVars, analysisVars>>

\* as_completed yields a finished future and the main thread handles it
Collect ==
    /\ exec_pc = "collecting"
    /\ \E j \in 1..Len(items) :
          /\ future[j] = "finished"
          /\ LET e == HandleFuture(executor, items[j], outcome[j])
             IN  /\ future' = [future EXCEPT ![j] = "collected"]
                 /\ results' = results \o e.append
                 /\ stats' = [stats EXCEPT !.deleted = @ + e.deleted,
                                           !.failed = @ + e.failed]
                 /\ exec_pc' = IF e.escaped THEN "raised" ELSE exec_pc
    /\ UNCHANGED <<executor, items, chunk_size, max_workers, chunk_start,
                   outcome>>
    /\ UNCHANGED <<splitVars, rateVars, checkVars, fetchVars, reportVars,
                   deleteVars, analysisVars>>

\* mutant of NextChunk: the next chunk is submitted as soon as every task of
\* the chunk has been started, without waiting for the pool
NextChunkNoWait ==
    /\ exec_pc = "collecting"
    /\ \A j \in Chunk(chunk_start) : future[j] # "queued"
    /\ chunk_start + chunk_size <= Len(items)
    /\ chunk_start' = chunk_start + chunk_size
    /\ SubmitChunk(chunk_start + chunk_size)
    /\ UNCHANGED <<executor, items, chunk_size, max_workers, outcome,
                   results, stats, exec_pc>>
    /\ UNCHANGED <<splitVars, rateVars, checkVars, fetchVars, reportVars,
                   deleteVars, analysisVars>>

\* every future of the chunk has been handled: the pool is shut down and the
\* for loop goes on with the next chunk, or the call returns results
NextChunk ==
    /\ exec_pc = "collecting"
    /\ \A j \in Chunk(chunk_start) : future[j] = "collected"
    /\ chunk_start' = chunk_start + chunk_size
    /\ IF chunk_start + chunk_size > Len(items)
       THEN exec_pc' = "returned" /\ UNCHANGED future
       ELSE SubmitChunk(chunk_start + chunk_size) /\ UNCHANGED exec_pc
    /\ UNCHANGED <<executor, items, chunk_size, max_workers, outcome,
                   results, stats>>
    /\ UNCHANGED <<splitVars, rateVars, checkVars, fetchVars, reportVars,
                   deleteVars, analysisVars>>

NextExec ==
    \/ ProcessParallelCall
    \/ WorkerStart
    \/ WorkerFinish
    \/ Collect
    \/ NextChunk

SpecExec == ExecInit /\ [][NextExec]_vars

(***************************************************************************)
(* RateLimiter.wait_if_needed, called by the worker threads before each    *)
(* request (delete_single_redirect line 61).  Time is counted in clock     *)
(* ticks; min_interval is a whole number of ticks.  The clock is the wall  *)
(* clock, far from 0 when the RateLimiter is built, so that the first call *)
(* finds the interval elapsed.  A thread may be suspended between any two  *)
(* statements; the method takes no lock.                                   *)
(***************************************************************************)
\* mutant of SleepTime: the deficit is taken one tick short
SleepTimeShort(cur, last) == min_interval - (cur - last) - 1

\* line 128: sleep_time = self.min_interval - time_since_last
SleepTime(cur, last) == min_interval - (cur - last)

\* line 127: time_since_last < self.min_interval
MustSleep(cur, last) == cur - last < min_interval

Return(called, time, sl) == [called |-> called, time |-> time, slept |-> sl]

\* the log with one more return, cut to the two latest
Logged(log, ret) == IF log = <<>> THEN <<ret>> ELSE <<log[Len(log)], ret>>

\* the callers of one RateLimiter: a single thread, or two worker threads
ThreadSets == {{"t1"}, {"t1", "t2"}}

RateInit ==
    /\ SplitIdle /\ ExecIdle /\ CheckIdle /\ FetchIdle /\ ReportIdle
    /\ DeleteIdle /\ AnalysisIdle
    /\ rl_threads \in ThreadSets
    /\ min_interval \in 1..MaxInterval
    /\ now = min_interval
    /\ last_request_time = 0
    /\ rl_pc = [t \in rl_threads |-> "idle"]
    /\ current_time = [t \in rl_threads |-> 0]
    /\ wake = [t \in rl_threads |-> 0]
    /\ slept = [t \in rl_threads |-> FALSE]
    /\ rl_calls = 0
    /\ rl_returns = <<>>

\* the clock advances
Tick ==
    /\ now < MaxInterval + MaxTime
    /\ now' = now + 1
    /\ UNCHANGED <<rl_threads, min_interval, last_request_time, rl_pc,
                   current_time, wake, slept, rl_calls, rl_returns>>
    /\ UNCHANGED <<splitVars, execVars, checkVars, fetchVars, reportVars,
                   deleteVars, analysisVars>>

\* line 124: current_time = time.time()
WaitIfNeededCall ==
    /\ rl_calls < MaxCalls
    /\ \E t \in rl_threads :
          /\ rl_pc[t] = "idle"
          /\ current_time' = [current_time EXCEPT ![t] = now]
          /\ rl_pc' = [rl_pc EXCEPT ![t] = "called"]
    /\ rl_calls' = rl_calls + 1
    /\ UNCHANGED <<rl_threads, min_interval, now, last_request_time, wake,
                   slept, rl_returns>>
    /\ UNCHANGED <<splitVars, execVars, checkVars, fetchVars, reportVars,
                   deleteVars, analysisVars>>

\* lines 125-129: read self.last_request_time and go to sleep for the deficit,
\* or go on
WaitIfNeededCompare ==
    /\ \E t \in rl_threads :
          /\ rl_pc[t] = "called"
          /\ IF MustSleep(current_time[t], last_request_time)
             THEN /\ wake' = [wake EXCEPT ![t] =
                                now + SleepTime(current_time[t],
                                                last_request_time)]
                  /\ slept' = [slept EXCEPT ![t] = TRUE]
                  /\ rl_pc' = [rl_pc EXCEPT ![t] = "sleeping"]
             ELSE /\ rl_pc' = [rl_pc EXCEPT ![t] = "awake"]
                  /\ UNCHANGED <<wake, slept>>
    /\ UNCHANGED <<rl_threads, min_interval, now, last_request_time,
                   current_time, rl_calls, rl_returns>>
    /\ UNCHANGED <<splitVars, execVars, checkVars, fetchVars, reportVars,
                   deleteVars, analysisVars>>

\* line 129: time.sleep(sleep_time) ends, not before sleep_time has passed
WaitIfNeededWake ==
    /\ \E t \in rl_threads :
          /\ rl_pc[t] = "sleeping"
          /\ now >= wake[t]
          /\ rl_pc' = [rl_pc EXCEPT ![t] = "awake"]
    /\ UNCHANGED <<rl_threads, min_interval, now, last_request_time,
                   current_time, wake, slept, rl_calls, rl_returns>>
    /\ UNCHANGED <<splitVars, execVars, checkVars, fetchVars, reportVars,
                   deleteVars, analysisVars>>

\* line 131: self.last_request_time = time.time(), and the method returns
WaitIfNeededReturn ==
    /\ \E t \in rl_threads :
          /\ rl_pc[t] = "awake"
          /\ last_request_time' = now
          /\ rl_returns' = Logged(rl_returns,
                                 Return(current_time[t], now, slept[t]))
          /\ rl_pc' = [rl_pc EXCEPT ![t] = "idle"]
          \* the locals of the call are gone
          /\ current_time' = [current_time EXCEPT ![t] = 0]
          /\ wake' = [wake EXCEPT ![t] = 0]
          /\ slept' = [slept EXCEPT ![t] = FALSE]
    /\ UNCHANGED <<rl_threads, min_interval, now, rl_calls>>
    /\ UNCHANGED <<splitVars, execVars, checkVars, fetchVars, reportVars,
                   deleteVars, analysisVars>>

NextRate ==
    \/ Tick
    \/ WaitIfNeededCall
    \/ WaitIfNeededCompare
    \/ WaitIfNeededWake
    \/ WaitIfNeededReturn

SpecRate == RateInit /\ [][NextRate]_vars

(***************************************************************************)
(* The status check of the redirect targets (status_checker.py):           *)
(* check_redirect_statuses_async takes the canonical urls of the rows,     *)
(* check_all_urls removes the duplicates and checks the urls batch by      *)
(* batch, check_urls_batch runs the checks of a batch as asyncio tasks     *)
(* under a semaphore, and update_dataframe_with_statuses writes the        *)
(* statuses into copies of the rows.  The checker is used inside           *)
(* `async with`, so its session is open.                                   *)
(* A Python value is modelled by its type and its text, so that the int    *)
(* 200 and the str "200" are different values.                             *)
(***************************************************************************)
Val(type, text) == [type |-> type, text |-> text]

EMPTY == Val("str", "")

\* str(x)
Str(x) == Val("str", x.text)

\* the canonical urls of the rows; "" is a row without one
URLS == {"/a", "/b", "/c"}

\* a row built by fetch_redirects_for_range
Row(identifier, canonical_url) ==
    [identifier |-> identifier, canonical_url |-> canonical_url,
     check_404_or_200 |-> EMPTY]

\* what session.get does: a response with a status code, or an exception
GetOutcomes == {"200", "TimeoutError", "ClientError"}

\* the result of a task: the (url, status) pair it returned, or the exception
\* it ended with
TaskResult(e, url, st) == [exc |-> e, url |-> url, status |-> st]

\* mutant of check_single_status: asyncio.TimeoutError is not caught
check_single_status_uncaught(url, o) ==
    CASE o = "TimeoutError" -> TaskResult(TRUE, url, EMPTY)
      [] o = "ClientError" -> TaskResult(FALSE, url, Val("str", "error"))
      [] OTHER -> TaskResult(FALSE, url, Val("int", o))

\* check_single_status lines 48-59, with an open session
check_single_status(url, o) ==
    CASE o = "TimeoutError" -> TaskResult(FALSE, url, Val("str", "timeout"))
      [] o = "ClientError" -> TaskResult(FALSE, url, Val("str", "error"))
      [] OTHER -> TaskResult(FALSE, url, Val("int", o))

\* mutant of ProcessResult: every result is filed under "unknown"
ProcessResultUnknown(result) == <<"unknown", result.status>>

\* check_urls_batch lines 86-91: an exception returned by gather becomes
\* ("unknown", "error")
ProcessResult(result) ==
    IF result.exc THEN <<"unknown", Val("str", "error")>>
    ELSE <<result.url, result.status>>

\* asyncio.gather(*tasks, return_exceptions=True), line 82: an exception of a
\* task is returned in its place, none is raised
gather(task_results) == [raised |-> FALSE, results |-> task_results]

Keys(seq) == { seq[i] : i \in 1..Len(seq) }

\* mutant of DictFromKeys: the duplicates are kept
KeepAll(seq, acc) == acc \o seq

\* list(dict.fromkeys(urls)): acc followed by the elements of seq not seen
\* before, in the order of their first occurrence
RECURSIVE DictFromKeys(_, _)
DictFromKeys(seq, acc) ==
    IF seq = <<>> THEN acc
    ELSE DictFromKeys(Tail(seq),
                      IF Head(seq) \in Keys(acc) THEN acc
                      ELSE Append(acc, Head(seq)))

\* dict(all_results): the last pair of each key wins
Dict(pairs) ==
    [u \in { pairs[i][1] : i \in 1..Len(pairs) } |->
        LET last == CHOOSE i \in 1..Len(pairs) :
                       /\ pairs[i][1] = u
                       /\ \A j \in (i + 1)..Len(pairs) : pairs[j][1] # u
        IN  pairs[last][2]]

\* mutant of update_dataframe_with_statuses: the status is stored as it is
update_dataframe_without_str(rows, sd) ==
    [i \in 1..Len(rows) |->
        [rows[i] EXCEPT !.check_404_or_200 =
            IF rows[i].canonical_url \in DOMAIN sd
            THEN sd[rows[i].canonical_url] ELSE EMPTY]]

\* update_dataframe_with_statuses lines 149-159: the returned list
update_dataframe_with_statuses(rows, sd) ==
    [i \in 1..Len(rows) |->
        [rows[i] EXCEPT !.check_404_or_200 =
            Str(IF rows[i].canonical_url \in DOMAIN sd
                THEN sd[rows[i].canonical_url] ELSE EMPTY)]]

\* line 154, updated_item = item.copy(): the rows given are left as they were
RowsAfterUpdate(rows, sd) == rows

\* utils.chunk_list: the indices of the batch that starts at i
Batch(i) == i..Min(i + batch_size - 1, Len(unique_urls))

InFlight == { k \in 1..Len(unique_urls) : task[k] = "inflight" }
Waiting == { k \in 1..Len(unique_urls) : task[k] = "waiting" }

\* the lists of rows of at most n rows
RowLists(n) ==
    UNION { [1..m -> URLS \cup {""}] : m \in 0..n }

CheckInit ==
    /\ SplitIdle /\ ExecIdle /\ RateIdle /\ FetchIdle /\ ReportIdle
    /\ DeleteIdle /\ AnalysisIdle
    /\ \E us \in RowLists(MaxRows) :
          data = [i \in 1..Len(us) |-> Row(i, us[i])]
    /\ batch_size \in 1..MaxBatchSize
    /\ max_concurrent \in 1..MaxConcurrent
    /\ urls = <<>> /\ unique_urls = <<>> /\ batch_start = 1
    /\ task = <<>> /\ get_outcome = <<>> /\ issued = <<>>
    /\ all_results = <<>> /\ status_dict = <<>> /\ updated_data = <<>>
    /\ check_pc = "ready"

\* check_redirect_statuses_async lines 175-184 and check_all_urls lines
\* 108-122, up to the first suspension: the urls of the rows, without
\* duplicates, and the tasks of the first batch
CheckRedirectStatusesCall ==
    /\ check_pc = "ready"
    /\ LET us == SelectSeq([i \in 1..Len(data) |-> data[i].canonical_url],
                           LAMBDA u : u # "")
           uniq == DictFromKeys(us, <<>>)
       IN  /\ urls' = us
           /\ IF us = <<>>
              THEN \* "No URLs to check": return data
                   /\ updated_data' = data
                   /\ check_pc' = "returned"
                   /\ UNCHANGED <<unique_urls, task, get_outcome>>
              ELSE /\ unique_urls' = uniq
                   /\ task' = [k \in 1..Len(uniq) |->
                                 IF k <= batch_size THEN "waiting"
                                 ELSE "unsubmitted"]
                   /\ get_outcome' = [k \in 1..Len(uniq) |-> "pending"]
                   /\ check_pc' = "checking"
                   /\ UNCHANGED updated_data
    /\ UNCHANGED <<data, batch_size, max_concurrent, batch_start, issued,
                   all_results, status_dict>>
    /\ UNCHANGED <<splitVars, execVars, rateVars, fetchVars, reportVars,
                   deleteVars, analysisVars>>

\* mutant of CheckStart: the check starts without the semaphore
CheckStartUnbounded ==
    /\ check_pc = "checking"
    /\ Waiting # {}
    /\ LET k == CHOOSE w \in Waiting : \A v \in Waiting : w <= v
       IN  /\ task' = [task EXCEPT ![k] = "inflight"]
           /\ issued' = Append(issued, unique_urls[k])
    /\ UNCHANGED <<data, batch_size, max_concurrent, urls, unique_urls,
                   batch_start, get_outcome, all_results, status_dict,
                   updated_data, check_pc>>
    /\ UNCHANGED <<splitVars, execVars, rateVars, fetchVars, reportVars,
                   deleteVars, analysisVars>>

\* check_with_semaphore lines 77-78 and check_single_status line 50: the
\* oldest waiting task acquires the semaphore and issues its GET
CheckStart ==
    /\ check_pc = "checking"
    /\ Waiting # {}
    /\ Cardinality(InFlight) < max_concurrent
    /\ LET k == CHOOSE w \in Waiting : \A v \in Waiting : w <= v
       IN  /\ task' = [task EXCEPT ![k] = "inflight"]
           /\ issued' = Append(issued, unique_urls[k])
    /\ UNCHANGED <<data, batch_size, max_concurrent, urls, unique_urls,
                   batch_start, get_outcome, all_results, status_dict,
                   updated_data, check_pc>>
    /\ UNCHANGED <<splitVars, execVars, rateVars, fetchVars, reportVars,
                   deleteVars, analysisVars>>

\* a GET ends with a response, a timeout or another error; the task returns
\* and releases the semaphore
CheckFinish ==
    /\ check_pc = "checking"
    /\ \E k \in InFlight : \E o \in GetOutcomes :
          /\ task' = [task EXCEPT ![k] = "done"]
          /\ get_outcome' = [get_outcome EXCEPT ![k] = o]
    /\ UNCHANGED <<data, batch_size, max_concurrent, urls, unique_urls,
                   batch_start, issued, all_results, status_dict,
                   updated_data, check_pc>>
    /\ UNCHANGED <<splitVars, execVars, rateVars, fetchVars, reportVars,
                   deleteVars, analysisVars>>

\* asyncio.gather returns (line 82) when every task of the batch is done:
\* check_urls_batch returns the processed results in the order of the batch,
\* check_all_urls extends all_results and goes on with the next batch, or
\* returns dict(all_results) (lines 123-134)
BatchDone ==
    /\ check_pc = "checking"
    /\ \A k \in Batch(batch_start) : task[k] = "done"
    /\ LET first == batch_start
           n == Min(first + batch_size - 1, Len(unique_urls)) - first + 1
           gathered ==
               gather([m \in 1..n |->
                          check_single_status(unique_urls[first + m - 1],
                                              get_outcome[first + m - 1])])
           processed_results ==
               [m \in 1..n |-> ProcessResult(gathered.results[m])]
           extended == all_results \o processed_results
       IN  IF gathered.raised
           THEN /\ check_pc' = "raised"
                /\ UNCHANGED <<all_results, batch_start, status_dict, task>>
           ELSE /\ all_results' = extended
                /\ batch_start' = batch_start + batch_size
                /\ IF batch_start + batch_size > Len(unique_urls)
                   THEN /\ status_dict' = Dict(extended)
                        /\ check_pc' = "checked"
                        /\ UNCHANGED task
                   ELSE /\ task' = [k \in 1..Len(unique_urls) |->
                                      IF k \in Batch(batch_start + batch_size)
                                      THEN "waiting" ELSE task[k]]
                        /\ UNCHANGED <<status_dict, check_pc>>
    /\ UNCHANGED <<data, batch_size, max_concurrent, urls, unique_urls,
                   get_outcome, issued, updated_data>>
    /\ UNCHANGED <<splitVars, execVars, rateVars, fetchVars, reportVars,
                   deleteVars, analysisVars>>

\* check_redirect_statuses_async line 187: the statuses are written into
\* copies of the rows, which are returned
UpdateDataframe ==
    /\ check_pc = "checked"
    /\ updated_data' = update_dataframe_with_statuses(data, status_dict)
    /\ data' = RowsAfterUpdate(data, status_dict)
    /\ check_pc' = "returned"
    /\ UNCHANGED <<batch_size, max_concurrent, urls, unique_urls, batch_start,
                   task, get_outcome, issued, all_results, status_dict>>
    /\ UNCHANGED <<splitVars, execVars, rateVars, fetchVars, reportVars,
                   deleteVars, analysisVars>>

NextCheck ==
    \/ CheckRedirectStatusesCall
    \/ CheckStart
    \/ CheckFinish
    \/ BatchDone
    \/ UpdateDataframe

SpecCheck == CheckInit /\ [][NextCheck]_vars

(***************************************************************************)
(* The paginated fetch of the date ranges:                                 *)
(* identify_redirects_parallel_processor.py fetch_redirects_for_range and  *)
(* process_ranges_parallel (wires_report/parallel_processor.py             *)
(* fetch_wires_for_range has the same loop).                               *)
(***************************************************************************)
\* "size": "100" of the request and from_next += 100
PAGE_SIZE == 100
\* the offset at which the loop stops asking: from_next >= 10000
RESULT_WINDOW == 10000

\* the lists of date ranges explored: one range, or two fetched concurrently
RangeLists == { <<"r1">>, <<"r1", "r2">> }

FetchRangeIndices == 1..Len(fetch_ranges)

\* what one request can bring back: an exception of requests.get,
\* raise_for_status or response.json(); a body without content_elements; a
\* page whose first row has no "_id"; a full page of rows with a "count" of
\* 0 (absent), of exactly the rows seen so far, or beyond the result window
PageResponses(from) ==
    { [kind |-> "exception"], [kind |-> "empty"], [kind |-> "bad_row"] }
    \cup { [kind |-> "page", count |-> c] :
             c \in {0, from + PAGE_SIZE, 2 * RESULT_WINDOW} }

\* @limits(calls=20, period=60)
LIMIT_CALLS == 20

\* limits(calls=20, period=60): a new decorator object, which has counted no
\* call since its own period began
limits == [num_calls |-> 0]

\* the decorated function is called: the decorator counts the call
Called(limiter) == [num_calls |-> limiter.num_calls + 1]

\* the decorator raises RateLimitException, and sleep_and_retry sleeps to the
\* end of the period, when it has counted more than `calls` calls
MustWait(limiter) == limiter.num_calls > LIMIT_CALLS

\* line 91 with the window test off by one
WindowExceeded(from) == from > RESULT_WINDOW

\* line 91: from_next >= 10000
WindowReached(from) == from >= RESULT_WINDOW

\* lines 70-96: what the loop body does with a response; "break" tells whether
\* the loop is left, "failed" whether the except branch ran
AfterResponse(from, n, resp) ==
    CASE resp.kind = "exception" ->
             [from_next |-> from, all_items |-> n, failed |-> TRUE,
              break |-> TRUE]
      [] resp.kind = "empty" ->
             [from_next |-> from, all_items |-> n, failed |-> FALSE,
              break |-> TRUE]
      [] resp.kind = "bad_row" ->
             [from_next |-> from, all_items |-> n, failed |-> TRUE,
              break |-> TRUE]
      [] OTHER ->
             [from_next |-> from + PAGE_SIZE, all_items |-> n + PAGE_SIZE,
              failed |-> FALSE,
              break |-> \/ from + PAGE_SIZE >= resp.count
                        \/ WindowReached(from + PAGE_SIZE)]

FetchInit ==
    /\ SplitIdle /\ ExecIdle /\ RateIdle /\ CheckIdle /\ ReportIdle
    /\ DeleteIdle /\ AnalysisIdle
    /\ fetch_ranges \in RangeLists
    /\ from_next = [r \in FetchRangeIndices |-> 0]
    /\ all_items = [r \in FetchRangeIndices |-> 0]
    /\ requests = [r \in FetchRangeIndices |-> <<>>]
    /\ outstanding = [r \in FetchRangeIndices |-> 0]
    /\ page_failed = [r \in FetchRangeIndices |-> FALSE]
    /\ fetch_pc = [r \in FetchRangeIndices |-> "unsubmitted"]
    /\ range_outcome = [r \in FetchRangeIndices |-> "none"]
    /\ fetch_results = 0
    /\ completed_count = 0
    /\ period_requests = 0
    /\ fp_pc = "ready"

\* process_ranges_parallel lines 114-122: every range is submitted to the pool
ProcessRangesParallel ==
    /\ fp_pc = "ready"
    /\ fp_pc' = "submitted"
    /\ fetch_pc' = [r \in FetchRangeIndices |-> "queued"]
    /\ UNCHANGED <<fetch_ranges, from_next, all_items, requests, outstanding,
                   page_failed, range_outcome, fetch_results, completed_count>>
    /\ UNCHANGED period_requests
    /\ UNCHANGED <<splitVars, execVars, rateVars, checkVars, reportVars,
                   deleteVars, analysisVars>>

\* fetch_redirects_for_range lines 46-51: a worker thread starts the fetch
FetchStart ==
    /\ fp_pc = "submitted"
    /\ \E r \in FetchRangeIndices :
         /\ fetch_pc[r] = "queued"
         /\ fetch_pc' = [fetch_pc EXCEPT ![r] = "loop"]
         /\ from_next' = [from_next EXCEPT ![r] = 0]
         /\ all_items' = [all_items EXCEPT ![r] = 0]
    /\ UNCHANGED <<fetch_ranges, requests, outstanding, page_failed,
                   range_outcome, fetch_results, completed_count, fp_pc>>
    /\ UNCHANGED period_requests
    /\ UNCHANGED <<splitVars, execVars, rateVars, checkVars, reportVars,
                   deleteVars, analysisVars>>

\* lines 54-70: make_request is defined, decorated with a new limiter, and
\* called; the request of the page at from_next is sent.  The requests are
\* answered at once: time passes only while a limiter sleeps.
MakeRequest ==
    /\ \E r \in FetchRangeIndices :
         /\ fetch_pc[r] = "loop"
         /\ period_requests' =
                IF MustWait(Called(limits))
                THEN 1
                ELSE period_requests + 1
         /\ requests' = [requests EXCEPT ![r] = Append(@, from_next[r])]
         /\ outstanding' = [outstanding EXCEPT ![r] = @ + 1]
         /\ fetch_pc' = [fetch_pc EXCEPT ![r] = "awaiting"]
    /\ UNCHANGED <<fetch_ranges, from_next, all_items, page_failed,
                   range_outcome, fetch_results, completed_count, fp_pc>>
    /\ UNCHANGED <<splitVars, execVars, rateVars, checkVars, reportVars,
                   deleteVars, analysisVars>>

\* lines 66-99: the response arrives and the rest of the loop body runs; the
\* loop goes round or is left and the rows collected so far are returned
HandleResponse ==
    /\ \E r \in FetchRangeIndices :
         /\ fetch_pc[r] = "awaiting"
         /\ \E resp \in PageResponses(from_next[r]) :
              LET after == AfterResponse(from_next[r], all_items[r], resp)
              IN  /\ from_next' = [from_next EXCEPT ![r] = after.from_next]
                  /\ all_items' = [all_items EXCEPT ![r] = after.all_items]
                  /\ page_failed' = [page_failed EXCEPT ![r] = after.failed]
                  /\ fetch_pc' = [fetch_pc EXCEPT ![r] =
                                    IF after.break THEN "returned" ELSE "loop"]
         /\ outstanding' = [outstanding EXCEPT ![r] = @ - 1]
    /\ UNCHANGED <<fetch_ranges, requests, range_outcome, fetch_results,
                   completed_count, fp_pc>>
    /\ UNCHANGED period_requests
    /\ UNCHANGED <<splitVars, execVars, rateVars, checkVars, reportVars,
                   deleteVars, analysisVars>>

\* process_ranges_parallel lines 125-133: a completed future is handled; the
\* fetch returns a list whatever happened inside its loop
CollectRange ==
    /\ fp_pc = "submitted"
    /\ \E r \in FetchRangeIndices :
         /\ fetch_pc[r] = "returned" /\ range_outcome[r] = "none"
         /\ fetch_results' = fetch_results + all_items[r]
         /\ completed_count' = completed_count + 1
         /\ range_outcome' = [range_outcome EXCEPT ![r] = "completed"]
    /\ UNCHANGED <<fetch_ranges, from_next, all_items, requests, outstanding,
                   page_failed, fetch_pc, fp_pc>>
    /\ UNCHANGED period_requests
    /\ UNCHANGED <<splitVars, execVars, rateVars, checkVars, reportVars,
                   deleteVars, analysisVars>>

\* lines 135-136: every future has been handled, all_results is returned
ProcessRangesReturn ==
    /\ fp_pc = "submitted"
    /\ \A r \in FetchRangeIndices : range_outcome[r] # "none"
    /\ fp_pc' = "done"
    /\ UNCHANGED <<fetch_ranges, from_next, all_items, requests, outstanding,
                   page_failed, fetch_pc, range_outcome, fetch_results,
                   completed_count>>
    /\ UNCHANGED period_requests
    /\ UNCHANGED <<splitVars, execVars, rateVars, checkVars, reportVars,
                   deleteVars, analysisVars>>

NextFetch ==
    \/ ProcessRangesParallel
    \/ FetchStart
    \/ MakeRequest
    \/ HandleResponse
    \/ CollectRange
    \/ ProcessRangesReturn

SpecFetch == FetchInit /\ [][NextFetch]_vars

(***************************************************************************)
(* The report pipeline: identify_redirects.py generate_report and its four *)
(* steps, export_to_csv of the search processor, and write_csv_files of    *)
(* published_photo_analysis.py.                                            *)
(***************************************************************************)
\* most date ranges the splitter returns
MaxRanges == 4
\* process_date_ranges: the workers are tuned when len(date_ranges) > 3, on
\* date_ranges[:3]
OPTIMIZE_THRESHOLD == 3
\* optimize_worker_count: one benchmark for each of [1, 3, 5, 8, 10]
BENCHMARK_RUNS == 5

\* the file written by export_to_csv
REPORT_CSV == "redirects.csv"
\* write_csv_files: the two files, in the order of filenames
CSV_FILES == <<"preserved_photo_ids_", "photo_ids_to_delete_">>

\* a file system with one more file, or one file changed
WithFile(d, name, size) ==
    [f \in DOMAIN d \cup {name} |-> IF f = name THEN size ELSE d[f]]

\* a file system without a file
WithoutFile(d, name) == [f \in DOMAIN d \ {name} |-> d[f]]

\* os.path.getsize
GetSize(d, name) == d[name]

\* the files a run of write_csv_files can find: none, an empty one, or one
\* with a header and a row, under each of the two names
Disks ==
    UNION { [S -> {0, 2}] : S \in SUBSET {CSV_FILES[1], CSV_FILES[2]} }

\* generate_report without its exception propagation: the next step runs
\* whatever the step before did
AfterStageSwallowed(next, raised) == next

\* generate_report lines 126-135: the steps are plain calls in sequence, an
\* exception of a step leaves generate_report
AfterStage(next, raised) == IF raised THEN "raised" ELSE next

\* write_csv_files without lines 462-464
KeepEmpty(d, name) == d

\* write_csv_files lines 462-464: an empty file is removed
RemoveEmpty(d, name) ==
    IF GetSize(d, name) = 0 THEN WithoutFile(d, name) ELSE d

\* write_csv_files lines 433-459: the file is opened for appending, which
\* creates it when absent, and the rows are written, the preserved ones
\* after a header when the file is empty
Appended(d, name, rows, with_header) ==
    LET opened == IF name \in DOMAIN d THEN d ELSE WithFile(d, name, 0)
        size == GetSize(opened, name)
    IN  IF rows = 0 THEN opened
        ELSE WithFile(opened, name,
                      size + rows + (IF with_header /\ size = 0 THEN 1 ELSE 0))

\* export_to_csv lines 153-168 (the directory is not modelled): nothing is
\* written for no rows; otherwise a header and the rows
export_to_csv(d, rows) ==
    IF rows = 0
    THEN [disk |-> d, path |-> ""]
    ELSE [disk |-> WithFile(d, REPORT_CSV, rows + 1), path |-> REPORT_CSV]

\* export_results lines 100-106
export_results(d, rows) ==
    IF rows = 0 THEN [disk |-> d, path |-> ""] ELSE export_to_csv(d, rows)

ReportInit ==
    /\ SplitIdle /\ ExecIdle /\ RateIdle /\ CheckIdle /\ FetchIdle
    /\ DeleteIdle /\ AnalysisIdle
    /\ \/ /\ report_entry = "generate_report"
          /\ report_start \in {"", "2020-01-01"}
          /\ report_end \in {"", "2020-01-31"}
          /\ do_404_or_200 \in BOOLEAN
          /\ website_domain \in {"", "example.com"}
          /\ auto_optimize_workers \in BOOLEAN
          /\ report_data = 0
          /\ images_list = 0 /\ images_preserved = 0
          /\ disk0 = <<>>
       \/ /\ report_entry = "export_to_csv"
          /\ report_start = "" /\ report_end = ""
          /\ do_404_or_200 = FALSE /\ website_domain = ""
          /\ auto_optimize_workers = FALSE
          /\ report_data \in 0..MaxRows
          /\ images_list = 0 /\ images_preserved = 0
          /\ disk0 = <<>>
       \/ /\ report_entry = "write_csv_files"
          /\ report_start = "" /\ report_end = ""
          /\ do_404_or_200 = FALSE /\ website_domain = ""
          /\ auto_optimize_workers = FALSE
          /\ report_data = 0
          /\ images_list \in 0..MaxRows
          /\ images_preserved \in 0..MaxRows
          /\ disk0 \in Disks
    /\ splitter_calls = 0
    /\ report_ranges = 0
    /\ fetch_calls = 0
    /\ benchmark_fetches = 0
    /\ stage_log = <<>>
    /\ report_raised = "none"
    /\ output_file = ""
    /\ file_idx = 1
    /\ disk = disk0
    /\ report_pc = "ready"

\* generate_report line 126, build_optimal_date_ranges lines 58-64: without
\* both dates the list is empty; otherwise the splitter is asked, and returns
\* ranges or raises
BuildRanges ==
    /\ report_entry = "generate_report" /\ report_pc = "ready"
    /\ stage_log' = Append(stage_log, "BuildRanges")
    /\ IF report_start = "" \/ report_end = ""
       THEN /\ report_ranges' = 0
            /\ report_pc' = AfterStage("built", FALSE)
            /\ UNCHANGED <<splitter_calls, report_raised>>
       ELSE /\ splitter_calls' = splitter_calls + 1
            /\ \E raised \in BOOLEAN :
                 /\ report_pc' = AfterStage("built", raised)
                 /\ report_raised' = IF raised THEN "BuildRanges" ELSE "none"
                 /\ IF raised THEN report_ranges' = 0
                              ELSE report_ranges' \in 1..MaxRanges
    /\ UNCHANGED <<report_entry, report_start, report_end, do_404_or_200,
                   website_domain, auto_optimize_workers, fetch_calls,
                   benchmark_fetches, report_data, output_file, images_list,
                   images_preserved, file_idx, disk0, disk>>
    /\ UNCHANGED <<splitVars, execVars, rateVars, checkVars, fetchVars,
                   deleteVars, analysisVars>>

\* generate_report line 129, process_date_ranges lines 69-81: nothing is
\* fetched for an empty list; otherwise the workers are tuned on three ranges
\* when asked and there are more than three, and every range is fetched
FetchPerRange ==
    /\ report_entry = "generate_report" /\ report_pc = "built"
    /\ stage_log' = Append(stage_log, "FetchPerRange")
    /\ IF report_ranges = 0
       THEN /\ report_data' = 0
            /\ report_pc' = AfterStage("fetched", FALSE)
            /\ UNCHANGED <<fetch_calls, benchmark_fetches, report_raised>>
       ELSE /\ benchmark_fetches' =
                  IF auto_optimize_workers /\ report_ranges > OPTIMIZE_THRESHOLD
                  THEN BENCHMARK_RUNS * OPTIMIZE_THRESHOLD
                  ELSE 0
            /\ \E raised \in BOOLEAN :
                 /\ report_pc' = AfterStage("fetched", raised)
                 /\ report_raised' = IF raised THEN "FetchPerRange" ELSE "none"
                 /\ IF raised
                    THEN /\ report_data' = 0
                         /\ fetch_calls' \in {0, report_ranges}
                    ELSE /\ report_data' \in 0..MaxRows
                         /\ fetch_calls' = report_ranges
    /\ UNCHANGED <<report_entry, report_start, report_end, do_404_or_200,
                   website_domain, auto_optimize_workers, splitter_calls,
                   report_ranges, output_file, images_list, images_preserved,
                   file_idx, disk0, disk>>
    /\ UNCHANGED <<splitVars, execVars, rateVars, checkVars, fetchVars,
                   deleteVars, analysisVars>>

\* generate_report line 132, check_redirect_statuses lines 86-95: the rows
\* come back as they are unless the check was asked for and a domain given;
\* the check returns as many rows as it was given, or raises
StatusCheck ==
    /\ report_entry = "generate_report" /\ report_pc = "fetched"
    /\ IF ~do_404_or_200 \/ website_domain = ""
       THEN /\ report_pc' = AfterStage("checked", FALSE)
            /\ UNCHANGED <<stage_log, report_raised>>
       ELSE /\ stage_log' = Append(stage_log, "StatusCheck")
            /\ \E raised \in BOOLEAN :
                 /\ report_pc' = AfterStage("checked", raised)
                 /\ report_raised' = IF raised THEN "StatusCheck" ELSE "none"
    /\ UNCHANGED <<report_entry, report_start, report_end, do_404_or_200,
                   website_domain, auto_optimize_workers, splitter_calls,
                   report_ranges, fetch_calls, benchmark_fetches, report_data,
                   output_file, images_list, images_preserved, file_idx,
                   disk0, disk>>
    /\ UNCHANGED <<splitVars, execVars, rateVars, checkVars, fetchVars,
                   deleteVars, analysisVars>>

\* generate_report line 135, export_results lines 100-106: the rows are
\* written, or the writing raises
Export ==
    /\ report_entry = "generate_report" /\ report_pc = "checked"
    /\ stage_log' = Append(stage_log, "Export")
    /\ \E raised \in (IF report_data = 0 THEN {FALSE} ELSE BOOLEAN) :
         /\ report_pc' = AfterStage("exported", raised)
         /\ report_raised' = IF raised THEN "Export" ELSE "none"
         /\ IF raised
            THEN UNCHANGED <<disk, output_file>>
            ELSE /\ disk' = export_results(disk, report_data).disk
                 /\ output_file' = export_results(disk, report_data).path
    /\ UNCHANGED <<report_entry, report_start, report_end, do_404_or_200,
                   website_domain, auto_optimize_workers, splitter_calls,
                   report_ranges, fetch_calls, benchmark_fetches, report_data,
                   images_list, images_preserved, file_idx, disk0>>
    /\ UNCHANGED <<splitVars, execVars, rateVars, checkVars, fetchVars,
                   deleteVars, analysisVars>>

\* generate_report lines 138-147: the summary is returned
ReportReturn ==
    /\ report_entry = "generate_report" /\ report_pc = "exported"
    /\ report_pc' = "returned"
    /\ UNCHANGED <<report_entry, report_start, report_end, do_404_or_200,
                   website_domain, auto_optimize_workers, splitter_calls,
                   report_ranges, fetch_calls, benchmark_fetches, report_data,
                   stage_log, report_raised, output_file, images_list,
                   images_preserved, file_idx, disk0, disk>>
    /\ UNCHANGED <<splitVars, execVars, rateVars, checkVars, fetchVars,
                   deleteVars, analysisVars>>

\* a direct call export_to_csv(data, ...)
ExportToCsvCall ==
    /\ report_entry = "export_to_csv" /\ report_pc = "ready"
    /\ disk' = export_to_csv(disk, report_data).disk
    /\ output_file' = export_to_csv(disk, report_data).path
    /\ report_pc' = "returned"
    /\ UNCHANGED <<report_entry, report_start, report_end, do_404_or_200,
                   website_domain, auto_optimize_workers, splitter_calls,
                   report_ranges, fetch_calls, benchmark_fetches, report_data,
                   stage_log, report_raised, images_list, images_preserved,
                   file_idx, disk0>>
    /\ UNCHANGED <<splitVars, execVars, rateVars, checkVars, fetchVars,
                   deleteVars, analysisVars>>

\* write_csv_files lines 429-464: one iteration of the loop over filenames
WriteCsvFile ==
    /\ report_entry = "write_csv_files" /\ report_pc \in {"ready", "writing"}
    /\ file_idx <= Len(CSV_FILES)
    /\ LET file_name == CSV_FILES[file_idx]
           written == IF file_idx = 1
                      THEN Appended(disk, file_name, images_preserved, TRUE)
                      ELSE Appended(disk, file_name, images_list, FALSE)
       IN  disk' = RemoveEmpty(written, file_name)
    /\ file_idx' = file_idx + 1
    /\ report_pc' = "writing"
    /\ UNCHANGED <<report_entry, report_start, report_end, do_404_or_200,
                   website_domain, auto_optimize_workers, splitter_calls,
                   report_ranges, fetch_calls, benchmark_fetches, report_data,
                   stage_log, report_raised, output_file, images_list,
                   images_preserved, disk0>>
    /\ UNCHANGED <<splitVars, execVars, rateVars, checkVars, fetchVars,
                   deleteVars, analysisVars>>

\* write_csv_files: the loop is over
WriteCsvFilesReturn ==
    /\ report_entry = "write_csv_files" /\ report_pc = "writing"
    /\ file_idx > Len(CSV_FILES)
    /\ report_pc' = "returned"
    /\ UNCHANGED <<report_entry, report_start, report_end, do_404_or_200,
                   website_domain, auto_optimize_workers, splitter_calls,
                   report_ranges, fetch_calls, benchmark_fetches, report_data,
                   stage_log, report_raised, output_file, images_list,
                   images_preserved, file_idx, disk0, disk>>
    /\ UNCHANGED <<splitVars, execVars, rateVars, checkVars, fetchVars,
                   deleteVars, analysisVars>>

NextReport ==
    \/ BuildRanges
    \/ FetchPerRange
    \/ StatusCheck
    \/ Export
    \/ ReportReturn
    \/ ExportToCsvCall
    \/ WriteCsvFile
    \/ WriteCsvFilesReturn

SpecReport == ReportInit /\ [][NextReport]_vars

(***************************************************************************)
(* The delete / expire scripts: delete_or_expire_photos.py                 *)
(* (DeleteDefunctPhotos), delete_redirects.py (DeleteRedirects),           *)
(* delete_wires.py (DeleteStories) and their parallel processors.  The     *)
(* unit functions run in the threads of the pool and update self.stats     *)
(* with "+= 1", a read of the counter followed by a write, under no lock.  *)
(***************************************************************************)
\* most ids in the input CSV
MaxIds == 2
\* most invocations of a parallel processor
MaxInvocations == 2

UnitFuncs ==
    {"delete_single_photo", "expire_single_photo", "delete_single_redirect",
     "delete_single_story"}

PhotoFuncs == {"delete_single_photo", "expire_single_photo"}

\* the ids a CSV of photos can hold
PhotoIds == {"p1", "p2"}

\* the preserved CSV next to it: absent, or a set of ids
PreservedCsvs ==
    { [exists |-> FALSE, ids |-> {}] }
    \cup { [exists |-> TRUE, ids |-> S] : S \in SUBSET PhotoIds }
NoPreservedCsv == [exists |-> FALSE, ids |-> {}]

\* the CSV files explored: the first n of the rows p1, p2, p1, p2, ...
CsvOfRows(n) == [k \in 1..n |-> IF k % 2 = 1 THEN "p1" ELSE "p2"]

\* the redirects or stories of a CSV of n rows
ItemList(n) == [i \in 1..n |-> i]

\* the response codes used for an ok and for a failed response
HTTP_OK == 200
HTTP_ERROR == 404

\* what a unit call gives back: a dictionary with a status and, except for
\* "error", a response code (0 when there is none); Raised when an exception
\* left the call, NoResult while it runs
UnitResult(st, response) == [status |-> st, response |-> response]
Raised == UnitResult("raised", 0)
NoResult == UnitResult("none", 0)

\* the steps of a unit call; in_try tells whether the step is inside the try
Inc(key, by, in_try) ==
    [op |-> "inc", arg |-> key, by |-> by, in_try |-> in_try]
Req(method) == [op |-> "request", arg |-> method, by |-> 0, in_try |-> TRUE]
Raise == [op |-> "raise", arg |-> "", by |-> 0, in_try |-> TRUE]
ReturnStep(st, response) ==
    [op |-> "return", arg |-> st, by |-> response, in_try |-> FALSE]

\* what the remote can do to a unit call
RemoteOutcomes(unit) ==
    IF unit = "expire_single_photo"
    THEN {"ok", "get_not_ok", "get_exception", "put_not_ok", "put_exception"}
    ELSE {"ok", "not_ok", "exception"}

\* the initial self.stats of the script objects
InitialStats(unit) ==
    CASE unit \in PhotoFuncs ->
             [k \in {"total_photos_processed", "photos_deleted",
                     "photos_expired", "photos_failed", "photos_skipped",
                     "api_calls"} |-> 0]
      [] unit = "delete_single_redirect" ->
             [k \in {"total_redirects_processed", "redirects_deleted",
                     "redirects_failed", "api_calls"} |-> 0]
      [] OTHER ->
             [k \in {"total_wires_processed", "wires_deleted", "wires_failed",
                     "api_calls"} |-> 0]

\* the initial self.stats of the parallel processors; ImagesParallelProcessor
\* keeps none
InitialProcStats(unit) ==
    CASE unit \in PhotoFuncs -> <<>>
      [] unit = "delete_single_redirect" ->
             [k \in {"total_redirects_processed", "redirects_deleted",
                     "redirects_failed", "api_calls"} |-> 0]
      [] OTHER ->
             [k \in {"total_stories_processed", "stories_deleted",
                     "stories_failed", "api_calls"} |-> 0]

\* the key set by the script before the batch
TotalKey(unit) ==
    CASE unit \in PhotoFuncs -> "total_photos_processed"
      [] unit = "delete_single_redirect" -> "total_redirects_processed"
      [] OTHER -> "total_stories_processed"

\* the keys the processors count with
ProcDeletedKey(unit) ==
    IF unit = "delete_single_redirect" THEN "redirects_deleted"
                                       ELSE "stories_deleted"
ProcFailedKey(unit) ==
    IF unit = "delete_single_redirect" THEN "redirects_failed"
                                       ELSE "stories_failed"

\* the status of a success
SuccessStatus(unit) ==
    IF unit = "expire_single_photo" THEN "expired" ELSE "deleted"

\* the counter incremented by the dry-run branch
DryRunKey(unit) ==
    CASE unit = "delete_single_photo" -> "photos_deleted"
      [] unit = "expire_single_photo" -> "photos_expired"
      [] unit = "delete_single_redirect" -> "redirects_deleted"
      [] OTHER -> "wires_deleted"

\* the counters incremented by the other branches
DeletedKey(unit) ==
    CASE unit = "delete_single_photo" -> "photos_deleted"
      [] unit = "expire_single_photo" -> "photos_expired"
      [] unit = "delete_single_redirect" -> "redirects_deleted"
      [] OTHER -> "stories_deleted"
FailedKey(unit) ==
    CASE unit \in PhotoFuncs -> "photos_failed"
      [] unit = "delete_single_redirect" -> "redirects_failed"
      [] OTHER -> "stories_failed"

\* the dry-run branch: the counter, the log line and the result
DryRunBranch(unit) ==
    << Inc(DryRunKey(unit), 1, FALSE), ReturnStep(SuccessStatus(unit), HTTP_OK) >>

\* an expire_single_photo that sends the PUT whatever the GET returned
TryBlockPutAlways(unit, remote) ==
    << Req("GET"), Inc("api_calls", 1, TRUE), Req("PUT"),
       Inc("api_calls", 1, TRUE), Inc(DeletedKey(unit), 1, TRUE),
       ReturnStep(SuccessStatus(unit), HTTP_OK) >>

\* the try block of the unit functions, for each thing the remote can do
TryBlock(unit, remote) ==
    LET ok == << Inc(DeletedKey(unit), 1, TRUE),
                 ReturnStep(SuccessStatus(unit), HTTP_OK) >>
        not_ok == << Inc(FailedKey(unit), 1, TRUE),
                     ReturnStep("failed", HTTP_ERROR) >>
        api == << Inc("api_calls", 1, TRUE) >>
    IN  CASE unit = "expire_single_photo" ->
                 ( CASE remote = "get_exception" -> << Req("GET"), Raise >>
                     [] remote = "get_not_ok" -> << Req("GET") >> \o api \o not_ok
                     [] remote = "put_exception" ->
                            << Req("GET") >> \o api \o << Req("PUT"), Raise >>
                     [] remote = "put_not_ok" ->
                            << Req("GET") >> \o api \o << Req("PUT") >> \o api
                                \o not_ok
                     [] OTHER ->
                            << Req("GET") >> \o api \o << Req("PUT") >> \o api
                                \o ok )
          [] unit = "delete_single_story" ->
                 ( CASE remote = "exception" -> << Req("DELETE"), Raise >>
                     [] remote = "not_ok" ->
                            << Req("DELETE") >> \o api
                                \o << Req("DELETE"),
                                      Inc("api_calls", 2, TRUE) >> \o not_ok
                     [] OTHER ->
                            << Req("DELETE") >> \o api
                                \o << Req("DELETE"),
                                      Inc("api_calls", 2, TRUE) >> \o ok )
          [] OTHER ->
                 ( CASE remote = "exception" -> << Req("DELETE"), Raise >>
                     [] remote = "not_ok" -> << Req("DELETE") >> \o api \o not_ok
                     [] OTHER -> << Req("DELETE") >> \o api \o ok )

\* the except clause of the unit functions
ExceptBlock(unit) ==
    << Inc(FailedKey(unit), 1, FALSE), ReturnStep("error", 0) >>

\* a unit function without its dry-run test
UnitCallIgnoringDryRun(unit, dry_run, remote) == TryBlock(unit, remote)

\* delete_single_photo, expire_single_photo, delete_single_redirect and
\* delete_single_story: "if self.dry_run:" comes first
UnitCall(unit, dry_run, remote) ==
    IF dry_run THEN DryRunBranch(unit) ELSE TryBlock(unit, remote)

\* delete_arcids without the filter
NotFiltered(ids, preserved_ids) == ids

\* delete_arcids line 189: [pid for pid in photo_ids if pid not in
\* preserved_ids]
RECURSIVE Filtered(_, _)
Filtered(ids, preserved_ids) ==
    IF ids = <<>> THEN <<>>
    ELSE IF Head(ids) \in preserved_ids
         THEN Filtered(Tail(ids), preserved_ids)
         ELSE <<Head(ids)>> \o Filtered(Tail(ids), preserved_ids)

\* get_preserved_photo_ids: the ans_id column of the preserved CSV, nothing
\* when there is no such file
get_preserved_photo_ids(file) == IF file.exists THEN file.ids ELSE {}

\* delete_redirects_parallel without line 103
NotUpdated(own, parallel_stats) == own

\* dict.update: the keys of parallel_stats replace or extend those of own
Updated(own, parallel_stats) ==
    [k \in DOMAIN own \cup DOMAIN parallel_stats |->
        IF k \in DOMAIN parallel_stats THEN parallel_stats[k] ELSE own[k]]

\* results.append(result), the order of the list left out
Appended1(rs, result) ==
    [r \in DOMAIN rs \cup {result} |->
        IF r \in DOMAIN rs THEN rs[r] + (IF r = result THEN 1 ELSE 0) ELSE 1]

\* d[key] = value for a key that may be new
WithKey(d, key, value) ==
    [k \in DOMAIN d \cup {key} |-> IF k = key THEN value ELSE d[k]]

DelIndices == 1..Len(del_items)

DelRunning == { i \in DelIndices : del_future[i] = "running" }

DeleteInit ==
    /\ SplitIdle /\ ExecIdle /\ RateIdle /\ CheckIdle /\ FetchIdle
    /\ ReportIdle /\ AnalysisIdle
    /\ unit_func \in UnitFuncs
    /\ del_entry \in IF unit_func \in PhotoFuncs THEN {"script"}
                                                ELSE {"script", "processor"}
    /\ invocation = 0
    /\ del_dry_run \in BOOLEAN
    \* the repeated invocations of a processor are explored with a pool of
    \* one thread, the scripts with every pool
    /\ del_max_workers \in IF del_entry = "script" THEN 1..MaxWorkers
                                                    ELSE {1}
    /\ IF unit_func \in PhotoFuncs
       THEN /\ csv_ids \in { CsvOfRows(n) : n \in 0..MaxIds }
            /\ preserved_csv \in PreservedCsvs
       ELSE /\ csv_ids \in { ItemList(n) : n \in 0..MaxIds }
            /\ preserved_csv = NoPreservedCsv
    /\ del_items = <<>>
    /\ invoked = {}
    /\ del_future = <<>>
    /\ del_ops = <<>>
    /\ loaded = <<>>
    /\ del_remote = <<>>
    /\ del_requests = <<>>
    /\ del_result = <<>>
    /\ del_results = <<>>
    /\ del_stats = InitialStats(unit_func)
    /\ proc_stats = InitialProcStats(unit_func)
    /\ del_pc = "ready"

\* delete_arcids lines 176-211, delete_redirects lines 113-128 with
\* delete_redirects_parallel lines 85-99 and process_redirects_parallel lines
\* 63-77, delete_stories likewise: the CSV is read, the preserved photos are
\* filtered out, the totals are set and the items are submitted (the items
\* are at most batch_size, one chunk)
DeleteCall ==
    /\ del_pc = "ready"
    /\ del_entry = "script"
    /\ invocation' = invocation + 1
    /\ LET preserved_ids == get_preserved_photo_ids(preserved_csv)
           kept == IF unit_func \in PhotoFuncs
                   THEN Filtered(csv_ids, preserved_ids)
                   ELSE csv_ids
       IN  /\ del_items' = kept
           /\ del_stats' =
                  IF unit_func \in PhotoFuncs
                  THEN [del_stats EXCEPT
                          !["photos_skipped"] = Len(csv_ids) - Len(kept),
                          !["total_photos_processed"] = Len(kept)]
                  ELSE WithKey(del_stats, TotalKey(unit_func), Len(csv_ids))
           /\ proc_stats' =
                  IF unit_func \in PhotoFuncs
                  THEN proc_stats
                  ELSE [proc_stats EXCEPT ![TotalKey(unit_func)] = Len(kept)]
           /\ del_future' = [i \in 1..Len(kept) |-> "queued"]
           /\ del_ops' = [i \in 1..Len(kept) |-> <<>>]
           /\ loaded' = [i \in 1..Len(kept) |-> -1]
           /\ del_remote' = [i \in 1..Len(kept) |-> "none"]
           /\ del_requests' = [i \in 1..Len(kept) |-> <<>>]
           /\ del_result' = [i \in 1..Len(kept) |-> NoResult]
    /\ del_pc' = "processing"
    /\ UNCHANGED <<unit_func, del_entry, del_dry_run, del_max_workers,
                   csv_ids, preserved_csv, invoked, del_results>>
    /\ UNCHANGED <<splitVars, execVars, rateVars, checkVars, fetchVars,
                   reportVars, analysisVars>>

\* the steps of a unit call that touch nothing shared are taken at once: the
\* requests are sent, a raise enters the except clause
RECURSIVE RunLocal(_, _, _)
RunLocal(unit, ops, sent) ==
    IF ops = <<>> THEN [ops |-> ops, sent |-> sent]
    ELSE IF Head(ops).op = "request"
    THEN RunLocal(unit, Tail(ops), Append(sent, Head(ops).arg))
    ELSE IF Head(ops).op = "raise"
    THEN RunLocal(unit, ExceptBlock(unit), sent)
    ELSE [ops |-> ops, sent |-> sent]

\* process_redirects_parallel lines 41-77 (process_stories_parallel lines
\* 41-65) called on a processor, for the first time or again: the results
\* start empty, the total is set and the items are submitted; nothing else of
\* self.stats is touched.  delete_func is the unit function of a script
\* object, the items are those of csv_ids at every invocation.
ProcessItemsParallel ==
    /\ del_entry = "processor"
    /\ del_pc \in {"ready", "processor_returned"}
    /\ invocation < MaxInvocations
    /\ invocation' = invocation + 1
    /\ LET n == Len(csv_ids)
       IN
         /\ del_items' = csv_ids
         /\ proc_stats' = [proc_stats EXCEPT ![TotalKey(unit_func)] = n]
         /\ del_future' = [i \in 1..n |-> "queued"]
         /\ del_ops' = [i \in 1..n |-> <<>>]
         /\ loaded' = [i \in 1..n |-> -1]
         /\ del_remote' = [i \in 1..n |-> "none"]
         /\ del_requests' = [i \in 1..n |-> <<>>]
         /\ del_result' = [i \in 1..n |-> NoResult]
    /\ del_results' = <<>>
    /\ del_pc' = "processing"
    /\ UNCHANGED <<unit_func, del_entry, del_dry_run, del_max_workers,
                   csv_ids, preserved_csv, invoked, del_stats>>
    /\ UNCHANGED <<splitVars, execVars, rateVars, checkVars, fetchVars,
                   reportVars, analysisVars>>

\* a thread of the pool takes a queued item and enters the unit function, up
\* to its first access to self.stats; what the remote answers is drawn here
UnitStart ==
    /\ del_pc = "processing"
    /\ Cardinality(DelRunning) < del_max_workers
    /\ \E i \in DelIndices :
         /\ del_future[i] = "queued"
         /\ del_future' = [del_future EXCEPT ![i] = "running"]
         /\ invoked' = invoked \cup {del_items[i]}
         /\ \E remote \in RemoteOutcomes(unit_func) :
              LET run == RunLocal(unit_func,
                                  UnitCall(unit_func, del_dry_run, remote),
                                  <<>>)
              IN  /\ del_remote' = [del_remote EXCEPT ![i] = remote]
                  /\ del_ops' = [del_ops EXCEPT ![i] = run.ops]
                  /\ del_requests' = [del_requests EXCEPT ![i] = run.sent]
    /\ UNCHANGED <<unit_func, del_entry, invocation, del_dry_run,
                   del_max_workers, csv_ids,
                   preserved_csv, del_items, loaded, del_result, del_results,
                   del_stats, proc_stats, del_pc>>
    /\ UNCHANGED <<splitVars, execVars, rateVars, checkVars, fetchVars,
                   reportVars, analysisVars>>

\* "self.stats[key] += by", first half: the counter is read; a missing key
\* is a KeyError, which the except clause handles when the statement is in
\* the try block and which leaves the unit function otherwise
StatsLoad ==
    /\ \E i \in DelRunning :
         LET step == Head(del_ops[i])
         IN  /\ loaded[i] = -1
             /\ IF step.arg \in DOMAIN del_stats
                THEN /\ loaded' = [loaded EXCEPT ![i] = del_stats[step.arg]]
                     /\ UNCHANGED <<del_ops, del_future, del_result>>
                ELSE /\ UNCHANGED loaded
                     /\ IF step.in_try
                        THEN /\ del_ops' = [del_ops EXCEPT
                                              ![i] = ExceptBlock(unit_func)]
                             /\ UNCHANGED <<del_future, del_result>>
                        ELSE /\ del_ops' = [del_ops EXCEPT ![i] = <<>>]
                             /\ del_future' = [del_future EXCEPT
                                                 ![i] = "finished"]
                             /\ del_result' = [del_result EXCEPT
                                                 ![i] = Raised]
    /\ UNCHANGED <<unit_func, del_entry, invocation, del_dry_run,
                   del_max_workers, csv_ids, preserved_csv, del_items,
                   invoked, del_remote, del_requests, del_results, del_stats,
                   proc_stats, del_pc>>
    /\ UNCHANGED <<splitVars, execVars, rateVars, checkVars, fetchVars,
                   reportVars, analysisVars>>

\* "self.stats[key] += by", second half: the value read plus by is written;
\* the call goes on to its next access to self.stats or to its return
StatsStore ==
    /\ \E i \in DelRunning :
         LET step == Head(del_ops[i])
             run == RunLocal(unit_func, Tail(del_ops[i]), del_requests[i])
             next == Head(run.ops)
         IN  /\ loaded[i] # -1
             /\ del_stats' = [del_stats EXCEPT
                                ![step.arg] = loaded[i] + step.by]
             /\ loaded' = [loaded EXCEPT ![i] = -1]
             /\ del_requests' = [del_requests EXCEPT ![i] = run.sent]
             /\ IF next.op = "return"
                THEN /\ del_ops' = [del_ops EXCEPT ![i] = <<>>]
                     /\ del_future' = [del_future EXCEPT ![i] = "finished"]
                     /\ del_result' = [del_result EXCEPT
                                         ![i] = UnitResult(next.arg, next.by)]
                ELSE /\ del_ops' = [del_ops EXCEPT ![i] = run.ops]
                     /\ UNCHANGED <<del_future, del_result>>
    /\ UNCHANGED <<unit_func, del_entry, invocation, del_dry_run,
                   del_max_workers, csv_ids, preserved_csv, del_items,
                   invoked, del_remote, del_results, proc_stats, del_pc>>
    /\ UNCHANGED <<splitVars, execVars, rateVars, checkVars, fetchVars,
                   reportVars, analysisVars>>

\* the as_completed loop of the processors.  process_photos_parallel lines
\* 58-65: a result is appended, an exception logged.
\* process_redirects_parallel lines 80-99 (process_stories_parallel
\* likewise): a result is appended and counted by its status, an exception
\* is counted as failed and appended as an "error" result
DeleteCollect ==
    /\ del_pc = "processing"
    /\ \E i \in DelIndices :
         /\ del_future[i] = "finished"
         /\ del_future' = [del_future EXCEPT ![i] = "collected"]
         /\ LET result == del_result[i]
                deleted == ProcDeletedKey(unit_func)
                failed == ProcFailedKey(unit_func)
            IN  IF unit_func \in PhotoFuncs
                THEN /\ del_results' =
                            IF result = Raised THEN del_results
                            ELSE Appended1(del_results, result)
                     /\ UNCHANGED proc_stats
                ELSE IF result = Raised
                THEN /\ proc_stats' = [proc_stats EXCEPT ![failed] = @ + 1]
                     /\ del_results' =
                            Appended1(del_results, UnitResult("error", 0))
                ELSE /\ del_results' = Appended1(del_results, result)
                     /\ proc_stats' =
                            IF result.status = "deleted"
                            THEN [proc_stats EXCEPT ![deleted] = @ + 1]
                            ELSE IF result.status \in {"failed", "error"}
                            THEN [proc_stats EXCEPT ![failed] = @ + 1]
                            ELSE proc_stats
    /\ UNCHANGED <<unit_func, del_entry, invocation, del_dry_run,
                   del_max_workers, csv_ids, preserved_csv, del_items,
                   invoked, del_ops, loaded, del_remote, del_requests,
                   del_result, del_stats, del_pc>>
    /\ UNCHANGED <<splitVars, execVars, rateVars, checkVars, fetchVars,
                   reportVars, analysisVars>>

\* the processor returns; delete_redirects_parallel lines 102-105 and
\* delete_stories_parallel lines 113-116 then copy the processor's statistics
\* over their own
DeleteReturn ==
    /\ del_pc = "processing"
    /\ del_entry = "script"
    /\ \A i \in DelIndices : del_future[i] = "collected"
    /\ del_stats' = IF unit_func \in PhotoFuncs
                    THEN del_stats
                    ELSE Updated(del_stats, proc_stats)
    /\ del_pc' = "returned"
    /\ UNCHANGED <<unit_func, del_entry, invocation, del_dry_run,
                   del_max_workers, csv_ids, preserved_csv, del_items,
                   invoked, del_future, del_ops, loaded, del_remote,
                   del_requests, del_result, del_results, proc_stats>>
    /\ UNCHANGED <<splitVars, execVars, rateVars, checkVars, fetchVars,
                   reportVars, analysisVars>>

\* process_redirects_parallel lines 101-109 (process_stories_parallel lines
\* 105-112) called directly: the statistics are logged, the results returned
ProcessItemsReturn ==
    /\ del_pc = "processing"
    /\ del_entry = "processor"
    /\ \A i \in DelIndices : del_future[i] = "collected"
    /\ del_pc' = "processor_returned"
    /\ UNCHANGED <<unit_func, del_entry, invocation, del_dry_run,
                   del_max_workers, csv_ids, preserved_csv, del_items,
                   invoked, del_future, del_ops, loaded, del_remote,
                   del_requests, del_result, del_results, del_stats,
                   proc_stats>>
    /\ UNCHANGED <<splitVars, execVars, rateVars, checkVars, fetchVars,
                   reportVars, analysisVars>>

NextDelete ==
    \/ DeleteCall
    \/ ProcessItemsParallel
    \/ ProcessItemsReturn
    \/ UnitStart
    \/ StatsLoad
    \/ StatsStore
    \/ DeleteCollect
    \/ DeleteReturn

SpecDelete == DeleteInit /\ [][NextDelete]_vars

(***************************************************************************)
(* The photo analysis: published_photo_analysis.py                         *)
(* process_photos_analysis.  The photos found by query_photos go through   *)
(* three checks (references, fulltext, lightbox); each check runs in the   *)
(* pool of process_photos_parallel, and the photos it finds in use are     *)
(* moved from self.images_list to self.images_preserved before the next    *)
(* check starts.                                                           *)
(***************************************************************************)
\* most photos found by query_photos
MaxPhotos == 3

\* the lists of photo ids explored: n distinct ids
FoundPhotos(n) == [k \in 1..n |-> k]

\* the checks in the order they run
Steps == <<"references", "fulltext", "lightbox">>

StepIndex(step) == CHOOSE k \in 1..Len(Steps) : Steps[k] = step

\* the "location" of the item a check returns for a photo in use: lines 267,
\* 294, 315
Location(step) ==
    CASE step = "references" -> "referenced-content"
      [] step = "fulltext" -> "gallery"
      [] OTHER -> "lightbox"

\* the counter of a check: lines 358, 381, 404
StepCounter(step) ==
    CASE step = "references" -> "photos_in_stories"
      [] step = "fulltext" -> "photos_in_galleries"
      [] OTHER -> "photos_in_lightbox"

\* what a check does for a photo: it finds it in use and returns an item, it
\* returns None, or it meets an exception (caught in the check or, for the
\* lightbox check, logged by process_photos_parallel)
CheckOutcomes == {"found", "none", "exception"}

\* the removal forgotten
NotRemoved(list, x) == list

\* list.remove(x): the first occurrence of x is taken out
RECURSIVE Removed(_, _)
Removed(list, x) ==
    IF list = <<>> THEN <<>>
    ELSE IF Head(list) = x THEN Tail(list)
    ELSE <<Head(list)>> \o Removed(Tail(list), x)

InList(x, list) == \E k \in 1..Len(list) : list[k] = x

\* lines 349-358 (372-381, 395-404): the loop over the items a check
\* returned; st holds images_list, images_preserved and the check's counter
RECURSIVE RemoveLoop(_, _)
RemoveLoop(st, found_items) ==
    IF found_items = <<>> THEN st
    ELSE LET item == Head(found_items)
         IN  IF InList(item.photo_id, st.images_list)
             THEN RemoveLoop(
                      [images_list |-> Removed(st.images_list, item.photo_id),
                       images_preserved |->
                           Append(st.images_preserved,
                                  [ans_id |-> item.photo_id,
                                   ans_location |-> item.location]),
                       counter |-> st.counter + 1],
                      Tail(found_items))
             ELSE RemoveLoop(st, Tail(found_items))

\* __init__ lines 79-96 and query_photos lines 231-232
AnalysisInit ==
    /\ SplitIdle /\ ExecIdle /\ RateIdle /\ CheckIdle /\ FetchIdle
    /\ ReportIdle /\ DeleteIdle
    /\ an_ids \in { FoundPhotos(n) : n \in 0..MaxPhotos }
    /\ self_images_list = an_ids
    /\ self_images_preserved = <<>>
    /\ an_step = "references"
    /\ an_checked = {}
    /\ an_results = <<>>
    /\ check_log = {}
    /\ an_stats = [total_photos_processed |-> Len(an_ids),
                   photos_to_delete |-> 0, photos_preserved |-> 0,
                   photos_in_lightbox |-> 0, photos_in_stories |-> 0,
                   photos_in_galleries |-> 0]
    /\ an_pc = "ready"

\* lines 326-346: nothing is done without photos; otherwise the references
\* check is started on self.images_list
ProcessPhotosAnalysis ==
    /\ an_pc = "ready"
    /\ an_pc' = IF self_images_list = <<>> THEN "returned" ELSE "checking"
    /\ UNCHANGED <<an_ids, self_images_list, self_images_preserved, an_step,
                   an_checked, an_results, check_log, an_stats>>
    /\ UNCHANGED <<splitVars, execVars, rateVars, checkVars, fetchVars,
                   reportVars, deleteVars>>

\* process_photos_parallel lines 55-65 with the check functions lines
\* 251-321: the check of one photo of the list is over; an item is appended
\* to the results, None and exceptions leave nothing
CheckPhoto ==
    /\ an_pc = "checking"
    /\ \E k \in 1..Len(self_images_list) :
         LET photo_id == self_images_list[k]
         IN  /\ photo_id \notin an_checked
             /\ an_checked' = an_checked \cup {photo_id}
             /\ check_log' = check_log \cup {<<an_step, photo_id>>}
             /\ \E found \in CheckOutcomes :
                  an_results' =
                      IF found = "found"
                      THEN Append(an_results,
                                  [photo_id |-> photo_id,
                                   location |-> Location(an_step)])
                      ELSE an_results
    /\ UNCHANGED <<an_ids, self_images_list, self_images_preserved, an_step,
                   an_stats, an_pc>>
    /\ UNCHANGED <<splitVars, execVars, rateVars, checkVars, fetchVars,
                   reportVars, deleteVars>>

\* lines 348-360, 371-383, 394-406: process_photos_parallel has returned; the
\* photos it found in use are moved to images_preserved; the next check is
\* started when there is one and photos remain (lines 363, 386)
RemovePreserved ==
    /\ an_pc = "checking"
    /\ \A k \in 1..Len(self_images_list) : self_images_list[k] \in an_checked
    /\ LET st == RemoveLoop(
                     [images_list |-> self_images_list,
                      images_preserved |-> self_images_preserved,
                      counter |-> an_stats[StepCounter(an_step)]],
                     an_results)
       IN  /\ self_images_list' = st.images_list
           /\ self_images_preserved' = st.images_preserved
           /\ an_stats' = [an_stats EXCEPT ![StepCounter(an_step)] = st.counter]
           /\ IF an_step = "lightbox" \/ st.images_list = <<>>
              THEN /\ an_pc' = "finishing"
                   /\ UNCHANGED an_step
              ELSE /\ an_step' = Steps[StepIndex(an_step) + 1]
                   /\ UNCHANGED an_pc
    /\ an_checked' = {}
    /\ an_results' = <<>>
    /\ UNCHANGED <<an_ids, check_log>>
    /\ UNCHANGED <<splitVars, execVars, rateVars, checkVars, fetchVars,
                   reportVars, deleteVars>>

\* lines 408-411
AnalysisReturn ==
    /\ an_pc = "finishing"
    /\ an_stats' = [an_stats EXCEPT
                       !["photos_to_delete"] = Len(self_images_list),
                       !["photos_preserved"] = Len(self_images_preserved)]
    /\ an_pc' = "returned"
    /\ UNCHANGED <<an_ids, self_images_list, self_images_preserved, an_step,
                   an_checked, an_results, check_log>>
    /\ UNCHANGED <<splitVars, execVars, rateVars, checkVars, fetchVars,
                   reportVars, deleteVars>>

NextAnalysis ==
    \/ ProcessPhotosAnalysis
    \/ CheckPhoto
    \/ RemovePreserved
    \/ AnalysisReturn

SpecAnalysis == AnalysisInit /\ [][NextAnalysis]_vars

(***************************************************************************)
(* Properties of the range splitter (checked under SpecSplit).             *)
(***************************************************************************)
\* The instants of two date strings, independently of the code's parsing.
Parseable(str) == str.kind \in {"date", "secs", "frac", "zulu"}
SameZone(a, b) == (a.kind = "zulu") = (b.kind = "zulu")
Before(a, b) == a.s < b.s \/ (a.s = b.s /\ a.u < b.u)

\* a well-formed range with start < end
IsValidRange(r) ==
    /\ Parseable(r[1]) /\ Parseable(r[2]) /\ SameZone(r[1], r[2])
    /\ Before(r[1], r[2])

\* a malformed range, or one with start >= end
IsInvalidRange(r) ==
    \/ ~Parseable(r[1]) \/ ~Parseable(r[2])
    \/ (SameZone(r[1], r[2]) /\ ~Before(r[1], r[2]))

Last(seq) == seq[Len(seq)]
Elems(seq) == { seq[i] : i \in 1..Len(seq) }
Over(p) == p.hits > max_records
DirectCall == split_entry = "split_range"
Finished == status \in {"returned", "raised"}

\* rs is a chain from r's start to r's end
Covers(rs, r) ==
    /\ Len(rs) >= 1
    /\ rs[1][1] = r[1]
    /\ rs[Len(rs)][2] = r[2]
    /\ \A i \in 1..(Len(rs) - 1) : rs[i][2] = rs[i + 1][1]

\* C1: the list returned by split_range covers its input range exactly: it
\* starts at the range's start, ends at its end, and each range ends where
\* the next one starts.  (pending = <<>> with a root call made: the outermost
\* split_range call has returned `ranges`.)
C1_SplitCoversRange ==
    (root_calls # <<>> /\ pending = <<>> /\ status # "raised")
        => Covers(ranges, Last(root_calls))

\* C1 witness: a valid range came back in four pieces
C1_Witness ==
    /\ DirectCall /\ status = "returned" /\ split_depth0 = 0
    /\ IsValidRange(date_tuples[1])
    /\ Len(ranges) = 4

\* C2: a probe answer within the ceiling on a call below the maximum depth
\* makes split_range return exactly [R] after exactly one probe, made on R.
C2_WithinLimitsReturnsRange ==
    (DirectCall /\ probes # <<>> /\ probes[1].hits <= max_records)
        => /\ status = "returned"
           /\ ranges = <<date_tuples[1]>>
           /\ Len(probes) = 1
           /\ <<probes[1].start, probes[1].end>> = date_tuples[1]
           /\ split_depth0 < max_recursion_depth

\* C2 witness: the count equals the ceiling and the range is returned unsplit
C2_Witness ==
    /\ DirectCall /\ status = "returned"
    /\ Len(probes) = 1 /\ ~probes[1].failed /\ probes[1].hits = max_records
    /\ ranges = <<date_tuples[1]>>

\* C3: with every probe above the ceiling, split_range called at depth 0 on a
\* valid range returns exactly 2^max_recursion_depth ranges.
C3_AlwaysOverGivesPowerOfTwo ==
    (/\ DirectCall /\ split_depth0 = 0 /\ Finished
     /\ IsValidRange(date_tuples[1])
     /\ \A i \in 1..Len(probes) : Over(probes[i]))
        => /\ status = "returned"
           /\ Len(ranges) = 2 ^ max_recursion_depth

\* the instant a + b, as whole seconds and microseconds
SumSec(a, b) == a.s + b.s + ((a.u + b.u) \div MICROSECOND)
SumMicro(a, b) == (a.u + b.u) % MICROSECOND

\* 2 * m = a + b as instants
IsArithmeticMidpoint(m, a, b) ==
    /\ 2 * m.s + ((2 * m.u) \div MICROSECOND) = SumSec(a, b)
    /\ (2 * m.u) % MICROSECOND = SumMicro(a, b)

\* m is the midpoint of a and b, computed to the microsecond, cut to a whole
\* second: m has no sub-second part, 2m <= a + b + 1us and
\* a + b - 1us < 2(m + 1s)
IsMidpointCutToSecond(m, a, b) ==
    /\ m.kind = "secs" /\ m.u = 0
    /\ \/ 2 * m.s <= SumSec(a, b)
       \/ (2 * m.s = SumSec(a, b) + 1 /\ SumMicro(a, b) = MICROSECOND - 1)
    /\ \/ SumSec(a, b) < 2 * m.s + 2
       \/ (SumSec(a, b) = 2 * m.s + 2 /\ SumMicro(a, b) = 0)

\* the probe log of C4: the input range is over the ceiling, each of its two
\* halves is probed and is within it
OverThenTwoWithin ==
    /\ DirectCall /\ Len(probes) >= 3
    /\ Over(probes[1]) /\ ~Over(probes[2]) /\ ~Over(probes[3])
    /\ probes[2].depth = split_depth0 + 1
    /\ probes[3].depth = split_depth0 + 1

TwoHalves(mid) ==
    ranges = << <<date_tuples[1][1], mid>>, <<mid, date_tuples[1][2]>> >>

C5_MaxDepthReturnsUnprobed ==
    /\ \A i \in 1..Len(probes) : probes[i].depth < max_recursion_depth
    /\ (DirectCall /\ split_depth0 >= max_recursion_depth)
           => /\ probes = <<>>
              /\ status # "raised"
              /\ status = "returned" => ranges = <<date_tuples[1]>>

\* C5 witness: a direct call at the maximum depth has returned
C5_Witness ==
    /\ DirectCall /\ status = "returned"
    /\ max_recursion_depth > 0 /\ split_depth0 = max_recursion_depth
    /\ ranges = <<date_tuples[1]>>

\* C6: create_date_ranges_from_tuples and generate_report never let the
\* splitter probe a range that is malformed or has start >= end.
C6_InvalidRangeNeverProbed ==
    (split_entry \in {"create_date_ranges_from_tuples", "generate_report"})
        => \A i \in 1..Len(probes) :
              probes[i].depth = 0
                  => ~IsInvalidRange(<<probes[i].start, probes[i].end>>)

InvalidIndices ==
    SelectSeq([i \in 1..Len(date_tuples) |-> i],
              LAMBDA i : IsInvalidRange(date_tuples[i]))

C8_ProbeFailureAcceptsRange ==
    \A i \in 1..Len(probes) :
       probes[i].failed
           => /\ probes[i].hits = 0
              /\ <<probes[i].start, probes[i].end>>
                     \in Elems(ranges) \cup Elems(optimized_ranges)
              /\ i < Len(probes) => probes[i + 1].depth <= probes[i].depth
              /\ (i = Len(probes) /\ status = "raised") => pending = <<>>
              /\ (DirectCall /\ i = 1) =>
                     /\ status = "returned" /\ Len(probes) = 1
                     /\ ranges = <<date_tuples[1]>>

\* C8 witness: the probe of a half failed after the range had been split
C8_Witness ==
    /\ status = "returned" /\ Len(probes) >= 2
    /\ Over(probes[1]) /\ probes[2].failed /\ probes[2].depth = 1

(***************************************************************************)
(* Properties of the chunked executors (checked under SpecExec).           *)
(***************************************************************************)
ItemIndices == 1..Len(items)

\* the positions of results that hold a result for item
ResultsOf(item) == { k \in 1..Len(results) : results[k].item = item }

\* C9: when every unit call returns a result (never None, never raises), the
\* executor returns exactly one result per item: len(results) = N and each
\* item has exactly one result, whatever the chunk size, the worker count and
\* the completion order.
C9_OneResultPerItem ==
    (exec_pc = "returned"
     /\ \A j \in ItemIndices : outcome[j] \in ResultStatuses)
        => /\ Len(results) = Len(items)
           /\ \A j \in ItemIndices :
                 /\ Cardinality(ResultsOf(items[j])) = 1
                 /\ \A k \in ResultsOf(items[j]) :
                       results[k].status = outcome[j]

\* C9 witness: three items in two chunks, all with a result, collected in an
\* order that is not the input order
C9_Witness ==
    /\ exec_pc = "returned" /\ Len(items) >= 3 /\ chunk_size = 2
    /\ \A j \in ItemIndices : outcome[j] \in ResultStatuses
    /\ Len(results) = Len(items)
    /\ results[1].item = items[2]

\* C10: an item whose unit call raises never makes the call raise, and the
\* unit function still runs on every item: when the call returns, every item
\* has an outcome and each item whose unit call returned a result has
\* exactly that result in the list.
C10_FailureIsolated ==
    /\ exec_pc # "raised"
    /\ exec_pc = "returned"
          => \A j \in ItemIndices :
                /\ outcome[j] # "pending"
                /\ outcome[j] \in ResultStatuses
                      => /\ Cardinality(ResultsOf(items[j])) = 1
                         /\ \A k \in ResultsOf(items[j]) :
                               /\ results[k].status = outcome[j]
                               /\ ~results[k].raised

\* C10 witness: the first item raised and an item of a later chunk has its
\* result
C10_Witness ==
    /\ exec_pc = "returned" /\ Len(items) >= 3 /\ chunk_size = 1
    /\ outcome[1] = "raise" /\ outcome[3] = "deleted"
    /\ \E k \in 1..Len(results) :
          results[k].item = items[3] /\ results[k].status = "deleted"

\* the items whose future has been handled and whose unit call did one of S
Handled(S) ==
    { j \in ItemIndices : future[j] = "collected" /\ outcome[j] \in S }

DeleteExecutor == executor \in {"redirects", "stories"}

\* C11: in the delete executors an item whose unit call raised has exactly one
\* result, tagged "error", carrying the item and the error message, and it
\* counts once in the failed counter: the failed counter is the number of
\* handled items that raised or returned a failed/error result, and
\* len(results) is the number of items whose unit call returned non-None or
\* raised.
C11_RaisedItemTaggedError ==
    DeleteExecutor
        => /\ \A j \in ItemIndices :
                 outcome[j] = "raise"
                    => /\ Cardinality(ResultsOf(items[j]))
                             = IF future[j] = "collected" THEN 1 ELSE 0
                       /\ \A k \in ResultsOf(items[j]) :
                             results[k].status = "error" /\ results[k].raised
           /\ stats.failed = Cardinality(Handled({"failed", "error", "raise"}))
           /\ stats.deleted = Cardinality(Handled({"deleted"}))
           /\ Len(results) = Cardinality(Handled(UnitOutcomes \ {"none"}))
           /\ exec_pc = "returned"
                 => Len(results) = Cardinality({ j \in ItemIndices :
                                                  outcome[j] # "none" })

\* C11 witness: of three deleted items one raised, one returned None and one
\* was deleted
C11_Witness ==
    /\ DeleteExecutor /\ exec_pc = "returned" /\ Len(items) = 3
    /\ outcome[1] = "raise" /\ outcome[2] = "none" /\ outcome[3] = "deleted"
    /\ Len(results) = 2 /\ stats.failed = 1
    /\ \E k \in 1..Len(results) :
          results[k] = Result(items[1], "error", TRUE)

\* C12: the list of process_photos_parallel holds exactly the non-None values
\* returned by the unit calls that did not raise: one entry for each such
\* item, none for an item that returned None or raised, and nothing else.
C12_OnlyReturnedValues ==
    executor = "photos"
        => /\ \A j \in ItemIndices :
                 /\ Cardinality(ResultsOf(items[j]))
                       = IF j \in Handled(ResultStatuses) THEN 1 ELSE 0
                 /\ \A k \in ResultsOf(items[j]) :
                       results[k] = Result(items[j], outcome[j], FALSE)
           /\ Len(results) = Cardinality(Handled(ResultStatuses))
           /\ exec_pc = "returned"
                 => Len(results) = Cardinality({ j \in ItemIndices :
                                        outcome[j] \in ResultStatuses })

\* C12 witness: of three photos one raised, one returned None and one
\* returned a value: the list has that value only
C12_Witness ==
    /\ executor = "photos" /\ exec_pc = "returned" /\ Len(items) = 3
    /\ outcome[1] = "none" /\ outcome[2] = "deleted" /\ outcome[3] = "raise"
    /\ results = <<Result(items[2], "deleted", FALSE)>>

\* the chunk (counted from 0) of the item at index j
ChunkOf(j) == (j - 1) \div chunk_size

\* C13: chunks are processed strictly one after another: a task of a later
\* chunk is not even submitted, so its unit call has not started, before every
\* unit call of the earlier chunks has completed and been collected.
C13_ChunksSequential ==
    \A i, j \in ItemIndices :
       (ChunkOf(i) < ChunkOf(j) /\ future[j] # "unsubmitted")
           => future[i] = "collected"

\* C13 witness: two workers, chunks of one item: the second item runs and the
\* first has been collected
C13_Witness ==
    /\ exec_pc = "collecting" /\ chunk_size = 1 /\ max_workers = 2
    /\ Len(items) >= 2
    /\ future[1] = "collected" /\ future[2] = "running"

\* C14: at every moment of a process_*_parallel or process_ranges_parallel
\* call at most max_workers unit calls are executing.
C14_AtMostMaxWorkersRunning ==
    Cardinality(Running) <= max_workers

\* C14 witness: process_ranges_parallel with two workers: two unit calls run
\* and a third task waits for a free thread
C14_Witness ==
    /\ executor = "ranges" /\ max_workers = 2
    /\ Cardinality(Running) = 2 /\ Queued # {}

(***************************************************************************)
(* Properties of RateLimiter (checked under SpecRate).                     *)
(***************************************************************************)
SingleCaller == Cardinality(rl_threads) = 1

\* C15: with a single caller, wait_if_needed returns only when at least
\* min_interval = 1/max_requests_per_second has elapsed since its previous
\* return, and it returns without sleeping when that interval had already
\* elapsed at the call (it sleeps only when it had not).
C15_SingleCallerPaced ==
    SingleCaller
        => /\ \A i \in 1..(Len(rl_returns) - 1) :
                 /\ rl_returns[i + 1].time - rl_returns[i].time >= min_interval
                 /\ rl_returns[i + 1].slept
                       = (rl_returns[i + 1].called - rl_returns[i].time
                             < min_interval)
           /\ Len(rl_returns) = 1 => ~rl_returns[1].slept

\* C15 witness: a single caller made three calls: the second slept, the
\* third found the interval elapsed and did not
C15_Witness ==
    /\ SingleCaller /\ rl_calls = 3 /\ Len(rl_returns) = 2 /\ min_interval = 2
    /\ rl_returns[1].slept /\ ~rl_returns[2].slept

\* C16: with several threads on one RateLimiter, any two returns of
\* wait_if_needed are at least min_interval apart.
C16_AnyTwoReturnsPaced ==
    \A i \in 1..(Len(rl_returns) - 1) :
       rl_returns[i + 1].time - rl_returns[i].time >= min_interval

(***************************************************************************)
(* Properties of the status check (checked under SpecCheck).               *)
(***************************************************************************)
\* the index of the first occurrence of u in the urls given to check_all_urls
FirstIndex(u) ==
    CHOOSE i \in 1..Len(urls) :
       urls[i] = u /\ \A j \in 1..(i - 1) : urls[j] # u

CheckAllUrlsReturned == check_pc \in {"checked", "returned"}

\* C17: check_all_urls issues exactly one GET per distinct url of its input,
\* in the order in which the urls are first seen, however often a url occurs
\* in the input.
C17_OneCheckPerDistinctUrl ==
    /\ \A i \in 1..Len(issued) : issued[i] \in Elems(urls)
    /\ \A i, k \in 1..Len(issued) :
          i < k => /\ issued[i] # issued[k]
                   /\ FirstIndex(issued[i]) < FirstIndex(issued[k])
    /\ CheckAllUrlsReturned => Elems(issued) = Elems(urls)

\* C17 witness: the first url occurs again after a second one (as in
\* ["/a", "/b", "/a"]) and two GETs were issued
C17_Witness ==
    /\ check_pc = "returned" /\ Len(urls) = 3
    /\ urls[1] = urls[3] /\ urls[1] # urls[2]
    /\ issued = <<urls[1], urls[2]>>

\* row b is row a but for its check_404_or_200
SameOtherFields(a, b) ==
    /\ a.identifier = b.identifier
    /\ a.canonical_url = b.canonical_url

\* C18 as stated: after update_dataframe_with_statuses every row whose
\* canonical_url is a key of the status map has check_404_or_200 equal to
\* that url's status; the number of rows, their order and their other fields
\* are unchanged.
C18_RowsGetStatus ==
    check_pc = "returned"
        => /\ Len(updated_data) = Len(data)
           /\ \A i \in 1..Len(data) :
                 /\ SameOtherFields(data[i], updated_data[i])
                 /\ data[i].canonical_url \in DOMAIN status_dict
                       => updated_data[i].check_404_or_200
                             = status_dict[data[i].canonical_url]

\* the string that str() gives for a status: the digits of a status code,
\* the sentinel itself
IsStringOf(field, status_code) ==
    field.type = "str" /\ field.text = status_code.text

\* C18 amended: every row whose canonical_url is a key of the status map has
\* check_404_or_200 equal to the string form of that url's status (the int
\* 200 is stored as "200"), so all rows sharing a url get the same string;
\* the number of rows, their order and their other fields are unchanged, and
\* the input rows are never changed.
C18_RowsGetStatusAsString ==
    /\ [](check_pc = "returned"
            => /\ Len(updated_data) = Len(data)
               /\ \A i \in 1..Len(data) :
                     /\ SameOtherFields(data[i], updated_data[i])
                     /\ data[i].canonical_url \in DOMAIN status_dict
                           => IsStringOf(updated_data[i].check_404_or_200,
                                         status_dict[data[i].canonical_url]))
    /\ [][data' = data]_vars

\* C18 witness: two rows share a url whose status is the int 200, a third
\* row has no url: the two rows hold "200", the third holds ""
C18_Witness ==
    /\ check_pc = "returned" /\ Len(data) = 3
    /\ data[1].canonical_url = data[3].canonical_url
    /\ data[2].canonical_url = ""
    /\ status_dict # <<>>
    /\ status_dict[data[1].canonical_url] = Val("int", "200")
    /\ updated_data[1].check_404_or_200 = Val("str", "200")
    /\ updated_data[3].check_404_or_200 = Val("str", "200")
    /\ updated_data[2].check_404_or_200 = EMPTY

\* C19: a check that times out gives its url the status "timeout", a check
\* that fails otherwise gives it the status "error", a response gives its
\* status code, and no exception of a check leaves check_all_urls.
C19_FailuresBecomeStatuses ==
    /\ check_pc # "raised"
    /\ CheckAllUrlsReturned
          => \A k \in 1..Len(issued) :
                /\ issued[k] \in DOMAIN status_dict
                /\ status_dict[issued[k]] =
                      CASE get_outcome[k] = "TimeoutError"
                               -> Val("str", "timeout")
                        [] get_outcome[k] = "ClientError"
                               -> Val("str", "error")
                        [] OTHER -> Val("int", get_outcome[k])

\* C19 witness: one check timed out, one failed otherwise and one got a
\* response, and check_all_urls returned the three statuses
C19_Witness ==
    /\ CheckAllUrlsReturned /\ Len(issued) = 3
    /\ get_outcome = <<"TimeoutError", "ClientError", "200">>
    /\ status_dict[issued[1]] = Val("str", "timeout")
    /\ status_dict[issued[2]] = Val("str", "error")
    /\ status_dict[issued[3]] = Val("int", "200")

\* the batch (counted from 0) of the url at index k of unique_urls
BatchOf(k) == (k - 1) \div batch_size

\* C20: at every moment of check_all_urls at most max_concurrent checks are
\* in flight, and the batches run one after another: no check of a later
\* batch exists before every check of the earlier batches is done.
C20_AtMostMaxConcurrentInFlight ==
    /\ Cardinality(InFlight) <= max_concurrent
    /\ \A i, k \in 1..Len(unique_urls) :
          (BatchOf(i) < BatchOf(k) /\ task[k] # "unsubmitted")
              => task[i] = "done"

\* C20 witness: with max_concurrent = 1 and batches of two, one check of the
\* first batch is in flight, the other waits for the semaphore and the url
\* of the second batch has no task yet
C20_Witness ==
    /\ check_pc = "checking" /\ max_concurrent = 1 /\ batch_size = 2
    /\ Len(unique_urls) = 3
    /\ task = <<"inflight", "waiting", "unsubmitted">>

IsStatus(v) ==
    \/ v.type = "int"
    \/ v = Val("str", "timeout")
    \/ v = Val("str", "error")

\* C21: the map returned by check_all_urls has exactly the distinct urls of
\* its input as keys, each with one status that is an integer code,
\* "timeout" or "error", whatever the checks did.
C21_MapHasDistinctUrlsAsKeys ==
    CheckAllUrlsReturned
        => /\ DOMAIN status_dict = Elems(urls)
           /\ \A u \in DOMAIN status_dict : IsStatus(status_dict[u])

\* C21 witness: a url given twice and another one; one check timed out, the
\* other got a status code: the map has the two keys
C21_Witness ==
    /\ CheckAllUrlsReturned /\ Len(urls) = 3 /\ urls[1] = urls[2]
    /\ urls[3] # urls[1]
    /\ DOMAIN status_dict = {urls[1], urls[3]}
    /\ status_dict[urls[1]] = Val("str", "timeout")
    /\ status_dict[urls[3]].type = "int"

(***************************************************************************)
(* Properties of the paginated range fetch (checked under SpecFetch).      *)
(***************************************************************************)
\* the offsets a fetch may ask for: 0, 100, 200, ... below the result window
OffsetOfRequest(k) == (k - 1) * PAGE_SIZE

\* C23: within the fetch of one range the k-th request asks for offset
\* (k-1)*100 with page size 100, every requested offset is below 10000, at
\* most one request is unanswered at any time (a request is sent only after
\* the response to the one before), and no fetch sends more than 100
\* requests, whatever the API answers.
C23_PagesOrderedAndBounded ==
    \A r \in FetchRangeIndices :
        /\ \A k \in 1..Len(requests[r]) :
               /\ requests[r][k] = OffsetOfRequest(k)
               /\ requests[r][k] < RESULT_WINDOW
        /\ outstanding[r] <= 1
        /\ outstanding[r] = 1 <=> fetch_pc[r] = "awaiting"
        /\ Len(requests[r]) <= RESULT_WINDOW \div PAGE_SIZE
        /\ Len(requests[r]) * PAGE_SIZE <= from_next[r] + PAGE_SIZE

\* C23 witness: a fetch that was answered with full pages and a count beyond
\* the window has returned after its 100th request, the one at offset 9900
C23_Witness ==
    \E r \in FetchRangeIndices :
        /\ fetch_pc[r] = "returned" /\ ~page_failed[r]
        /\ Len(requests[r]) = 100
        /\ requests[r][100] = 9900
        /\ from_next[r] = RESULT_WINDOW
        /\ all_items[r] = 10000

\* C24: a range whose fetch had a failing page request is recorded as a
\* failed range by process_ranges_parallel, not as a completed one; the
\* failing request is not sent again; the other ranges are still fetched.
C24_PageFailureRecordedAsFailed ==
    \A r \in FetchRangeIndices :
        page_failed[r]
            => /\ range_outcome[r] # "completed"
               /\ \A j, k \in 1..Len(requests[r]) :
                      requests[r][j] = requests[r][k] => j = k
               /\ fp_pc = "done"
                      => \A q \in FetchRangeIndices :
                             fetch_pc[q] = "returned"

(***************************************************************************)
(* Properties of the report pipeline (checked under SpecReport).           *)
(***************************************************************************)
NoDateFilter == report_start = "" \/ report_end = ""

FetchStageOver ==
    /\ report_entry = "generate_report"
    /\ report_pc \in {"fetched", "checked", "exported", "returned"}

\* C22: when generate_report is called without a start or an end date, the
\* splitter is not called (so no probe is made) and exactly one fetch, the
\* unranged one, has been performed when the fetch step is over.
C22_NoDatesOneUnrangedFetch ==
    (FetchStageOver /\ NoDateFilter)
        => /\ splitter_calls = 0
           /\ fetch_calls = 1

\* C25: a run that produced no rows leaves no empty report file: the export
\* of zero rows returns the empty path and creates no file; after
\* write_csv_files neither of its two files exists with size 0, every file
\* that had content before still has it (appended to, never truncated), and
\* a file that was given rows exists.
C25_NoZeroByteFileLeft ==
    /\ ( /\ report_entry \in {"generate_report", "export_to_csv"}
         /\ report_pc \in {"exported", "returned"}
         /\ report_data = 0 )
           => /\ output_file = ""
              /\ disk = disk0
    /\ ( /\ report_entry \in {"generate_report", "export_to_csv"}
         /\ report_pc \in {"exported", "returned"}
         /\ report_data > 0 )
           => /\ output_file = REPORT_CSV
              /\ REPORT_CSV \in DOMAIN disk
              /\ disk[REPORT_CSV] > 0
    /\ (report_entry = "write_csv_files" /\ report_pc = "returned")
           => \A k \in 1..Len(CSV_FILES) :
                  LET f == CSV_FILES[k]
                      rows == IF k = 1 THEN images_preserved ELSE images_list
                  IN  /\ f \in DOMAIN disk => disk[f] > 0
                      /\ (f \in DOMAIN disk0 /\ disk0[f] > 0)
                             => (f \in DOMAIN disk /\ disk[f] >= disk0[f] + rows)
                      /\ rows > 0 => (f \in DOMAIN disk /\ disk[f] >= rows)

\* C25 witness: write_csv_files found an empty preserved file and a delete
\* file with content, had no preserved rows and one id to delete: the empty
\* file is gone and the other one has grown
C25_Witness ==
    /\ report_entry = "write_csv_files" /\ report_pc = "returned"
    /\ disk0 = WithFile(WithFile(<<>>, CSV_FILES[1], 0), CSV_FILES[2], 2)
    /\ images_preserved = 0 /\ images_list = 1
    /\ DOMAIN disk = {CSV_FILES[2]}
    /\ disk[CSV_FILES[2]] = 3

StageOrder == <<"BuildRanges", "FetchPerRange", "StatusCheck", "Export">>

StageRank(stage) == CHOOSE k \in 1..Len(StageOrder) : StageOrder[k] = stage

Started(stage) == \E k \in 1..Len(stage_log) : stage_log[k] = stage

\* C26: the stages of generate_report start in the order BuildRanges,
\* FetchPerRange, StatusCheck, Export, each at most once and none before the
\* ones it follows (StatusCheck apart, which is optional); StatusCheck starts
\* only when status checking was requested; when a stage raises, the run is
\* over: that stage is the last one started and nothing has been exported.
C26_StagesInOrderAndStopOnError ==
    /\ \A i, j \in 1..Len(stage_log) :
           i < j => StageRank(stage_log[i]) < StageRank(stage_log[j])
    /\ Started("FetchPerRange") => Started("BuildRanges")
    /\ Started("StatusCheck") => Started("FetchPerRange")
    /\ Started("Export") => Started("FetchPerRange")
    /\ Started("StatusCheck") => do_404_or_200
    /\ report_raised # "none"
           => /\ report_pc = "raised"
              /\ stage_log # <<>>
              /\ stage_log[Len(stage_log)] = report_raised
              /\ (report_raised # "Export" => ~Started("Export"))
              /\ output_file = ""
              /\ disk = disk0
    /\ report_pc = "raised" => report_raised # "none"

\* C26 witness: the status check was requested and raised after the ranges
\* were built and fetched; nothing was exported
C26_Witness ==
    /\ report_entry = "generate_report"
    /\ report_pc = "raised" /\ report_raised = "StatusCheck"
    /\ stage_log = <<"BuildRanges", "FetchPerRange", "StatusCheck">>
    /\ report_data > 0
    /\ disk = <<>>

(***************************************************************************)
(* Properties of the delete scripts (checked under SpecDelete).            *)
(***************************************************************************)
RECURSIVE SumResults(_)
SumResults(R) ==
    IF R = {} THEN 0
    ELSE LET r == CHOOSE x \in R : TRUE
         IN  del_results[r] + SumResults(R \ {r})

\* the number of results whose status is in S
ResultsWith(S) == SumResults({ r \in DOMAIN del_results : r.status \in S })

\* C27: after delete_redirects has processed a CSV of N redirects, whatever
\* the interleaving of the worker threads, total_redirects_processed is N,
\* redirects_deleted is the number of results with status "deleted" (N in a
\* dry run) and redirects_failed the number of results with status "failed"
\* or "error".
C27_RedirectStatsMatchResults ==
    (unit_func = "delete_single_redirect" /\ del_pc = "returned")
        => /\ del_stats["total_redirects_processed"] = Len(csv_ids)
           /\ del_stats["redirects_deleted"] = ResultsWith({"deleted"})
           /\ del_stats["redirects_failed"] = ResultsWith({"failed", "error"})
           /\ ResultsWith({"deleted", "failed", "error"}) = Len(csv_ids)
           /\ del_dry_run => del_stats["redirects_deleted"] = Len(csv_ids)

\* C27 witness: two redirects deleted for good by two workers, one deleted
\* and one refused by the remote
C27_Witness ==
    /\ unit_func = "delete_single_redirect" /\ del_pc = "returned"
    /\ ~del_dry_run /\ del_max_workers = 2 /\ Len(csv_ids) = 2
    /\ del_stats["redirects_deleted"] = 1
    /\ del_stats["redirects_failed"] = 1
    /\ ResultsWith({"deleted"}) = 1 /\ ResultsWith({"failed"}) = 1

\* C28: after delete_arcids has processed a batch, whatever the interleaving
\* of the worker threads, photos_deleted + photos_expired + photos_failed is
\* the number of photos processed and every counter is the number of results
\* with the matching status.
C28_PhotoStatsMatchResults ==
    (unit_func \in PhotoFuncs /\ del_pc = "returned")
        => /\ del_stats["photos_deleted"] + del_stats["photos_expired"]
                  + del_stats["photos_failed"] = Len(del_items)
           /\ del_stats["photos_deleted"] = ResultsWith({"deleted"})
           /\ del_stats["photos_expired"] = ResultsWith({"expired"})
           /\ del_stats["photos_failed"] = ResultsWith({"failed", "error"})

\* the rows of the input CSV whose id is in the preserved CSV
PreservedRows ==
    { k \in 1..Len(csv_ids) :
        preserved_csv.exists /\ csv_ids[k] \in preserved_csv.ids }

C30_DryRunSendsNothing ==
    (del_dry_run /\ del_pc # "ready")
        => /\ \A i \in DelIndices :
                  /\ del_requests[i] = <<>>
                  /\ del_future[i] \in {"finished", "collected"}
                         => del_result[i]
                                = UnitResult(SuccessStatus(unit_func), HTTP_OK)
           /\ del_stats["api_calls"] = 0
           /\ "api_calls" \in DOMAIN proc_stats => proc_stats["api_calls"] = 0
           /\ del_pc = "returned"
                  => ResultsWith({SuccessStatus(unit_func)}) = Len(del_items)

\* C30 witness: a dry run of delete_single_story over two stories with two
\* workers has returned
C30_Witness ==
    /\ del_dry_run /\ del_pc = "returned"
    /\ unit_func = "delete_single_story"
    /\ Len(del_items) = 2 /\ del_max_workers = 2
    /\ ResultsWith({"deleted"}) = 2
    /\ \A i \in DelIndices : del_requests[i] = <<>>

\* the unit calls that have returned or raised
DelFinished == { i \in DelIndices : del_future[i] \in {"finished", "collected"} }

\* the requests of unit call i that were answered by a response: all those
\* sent, but the last one when it raised
Answered(i) ==
    IF del_remote[i] \in {"exception", "get_exception", "put_exception"}
    THEN Len(del_requests[i]) - 1
    ELSE Len(del_requests[i])

RECURSIVE AnsweredUpTo(_)
AnsweredUpTo(n) == IF n = 0 THEN 0 ELSE Answered(n) + AnsweredUpTo(n - 1)

C32_NoExceptionEscapes ==
    \A i \in DelFinished :
        /\ del_result[i] # Raised
        /\ del_result[i].status \in {"deleted", "expired", "failed", "error"}

\* C33: when the input range is valid (start < end), every range emitted by
\* split_range has start < end as well, for every probe answer and at every
\* depth, the midpoint being written to whole seconds.
C33_EmittedRangesHaveStartBeforeEnd ==
    (root_calls # <<>> /\ \A r \in Elems(root_calls) : IsValidRange(r))
        => \A r \in Elems(ranges) \cup Elems(optimized_ranges) :
               Before(r[1], r[2])

\* C40: for every input range accepted by validate_date_range, with or
\* without a trailing Z, split_range returns a list of ranges and never
\* raises, however many levels of splitting are needed.  (An exception raised
\* inside split_range leaves its calls pending.)
C40_SplitRangeNeverRaises ==
    (root_calls # <<>>
       /\ validate_date_range(Last(root_calls)[1], Last(root_calls)[2]) = "true")
        => ~(status = "raised" /\ pending # <<>>)

\* the delete unit functions, and the number of calls the remote treated as o
DeleteFuncs ==
    {"delete_single_photo", "delete_single_redirect", "delete_single_story"}
RemoteCount(o) == Cardinality({ i \in DelIndices : del_remote[i] = o })

\* C37: outside a dry run a delete unit function returns "deleted" exactly
\* when the DELETE response is ok, "failed" exactly when it is not ok and
\* "error" exactly when the request raised, and adds one to the matching
\* counter (seen in the counters when the calls run one after the other).
C37_DeleteStatusMatchesResponse ==
    (unit_func \in DeleteFuncs /\ ~del_dry_run)
        => /\ \A i \in DelFinished :
                  /\ del_result[i].status = "deleted" <=> del_remote[i] = "ok"
                  /\ del_result[i].status = "failed" <=> del_remote[i] = "not_ok"
                  /\ del_result[i].status = "error"
                         <=> del_remote[i] = "exception"
           /\ (del_max_workers = 1 /\ del_pc = "returned")
                  => /\ del_stats[DeletedKey(unit_func)] = RemoteCount("ok")
                     /\ del_stats[FailedKey(unit_func)]
                            = RemoteCount("not_ok") + RemoteCount("exception")

\* C38: after delete_redirects_parallel has returned, outside a dry run, the
\* api_calls of DeleteRedirects.stats (printed as the total of API calls) is
\* the number of DELETE requests sent by the unit calls of the batch (those
\* that were answered; a request that raised is not counted by the unit call).
C38_ApiCallsCountsDeleteRequests ==
    (unit_func = "delete_single_redirect" /\ ~del_dry_run
       /\ del_entry = "script" /\ del_pc = "returned")
        => del_stats["api_calls"] = AnsweredUpTo(Len(del_items))

\* C36: the statistics of a parallel processor describe one run: after each
\* invocation of process_redirects_parallel or process_stories_parallel on
\* the same processor, deleted + failed <= total processed and the counters
\* are the counts of the results of that invocation.
C36_ProcessorStatsDescribeOneRun ==
    (del_entry = "processor" /\ del_pc = "processor_returned")
        => /\ proc_stats[ProcDeletedKey(unit_func)]
                  + proc_stats[ProcFailedKey(unit_func)]
                  <= proc_stats[TotalKey(unit_func)]
           /\ proc_stats[TotalKey(unit_func)] = Len(del_items)
           /\ proc_stats[ProcDeletedKey(unit_func)] = ResultsWith({"deleted"})
           /\ proc_stats[ProcFailedKey(unit_func)]
                  = ResultsWith({"failed", "error"})

\* C35: the page requests of a range-level fetch, all pages and all workers
\* together, pass one shared limiter: no more than 20 of them are sent within
\* one limiter period.
C35_PageRequestsPacedByLimiter == period_requests <= LIMIT_CALLS

\* the records of the data set whose created_date lies in the input range
InInputRange(rec) ==
    ~Before(rec, Last(root_calls)[1]) /\ ~Before(Last(root_calls)[2], rec)

FetchedValidRange ==
    /\ consolidated # <<>> /\ root_calls # <<>>
    /\ IsValidRange(Last(root_calls))

\* C34: when every emitted sub-range is within the ceiling and every request
\* succeeds, the consolidated rows of the emitted sub-ranges hold each record
\* of the input range exactly once: none is missing, and none is there twice
\* at a boundary shared by two adjacent sub-ranges.
C34_EachRecordExactlyOnce ==
    FetchedValidRange
        => \A rec \in DataSet : InInputRange(rec) => consolidated[rec] = 1

(***************************************************************************)
(* Properties of the photo analysis (checked under SpecAnalysis).          *)
(***************************************************************************)
ToDelete == { self_images_list[k] : k \in 1..Len(self_images_list) }
PreservedIds ==
    { self_images_preserved[k].ans_id : k \in 1..Len(self_images_preserved) }
Original == { an_ids[k] : k \in 1..Len(an_ids) }

\* the checks that ran on photo x
ChecksOf(x) == { step \in {"references", "fulltext", "lightbox"} :
                   <<step, x>> \in check_log }

\* the check that found a photo with this location, and those before it
StepOfLocation(loc) ==
    CHOOSE k \in 1..Len(Steps) : Location(Steps[k]) = loc
StepsUpTo(k) == { Steps[j] : j \in 1..k }

\* C39: after process_photos_analysis over distinct photo ids, every original
\* id is in exactly one of images_list and images_preserved; a preserved id
\* is preserved once, by one check, and the checks ran in the order
\* references, fulltext, lightbox, each on the ids the earlier ones left;
\* photos_to_delete + photos_preserved = total_photos_processed.
C39_AnalysisPartitionsPhotos ==
    an_pc = "returned"
        => /\ ToDelete \cup PreservedIds = Original
           /\ ToDelete \cap PreservedIds = {}
           /\ Cardinality(ToDelete) = Len(self_images_list)
           /\ Cardinality(PreservedIds) = Len(self_images_preserved)
           /\ \A k \in 1..Len(self_images_preserved) :
                  LET item == self_images_preserved[k]
                  IN  ChecksOf(item.ans_id)
                          = StepsUpTo(StepOfLocation(item.ans_location))
           /\ \A x \in ToDelete : ChecksOf(x) = StepsUpTo(Len(Steps))
           /\ an_stats["photos_in_stories"] + an_stats["photos_in_galleries"]
                  + an_stats["photos_in_lightbox"] = Len(self_images_preserved)
           /\ an_stats["photos_to_delete"] + an_stats["photos_preserved"]
                  = an_stats["total_photos_processed"]
           /\ an_stats["total_photos_processed"] = Len(an_ids)

\* C39 witness: of three photos the first is kept by the references check,
\* the second by the lightbox check and the third is to delete
C39_Witness ==
    /\ an_pc = "returned" /\ Len(an_ids) = 3
    /\ self_images_list = <<3>>
    /\ self_images_preserved =
           << [ans_id |-> 1, ans_location |-> "referenced-content"],
              [ans_id |-> 2, ans_location |-> "lightbox"] >>
    /\ an_stats["photos_to_delete"] = 1 /\ an_stats["photos_preserved"] = 2
====
